---- MODULE Spec2Model ----
(***************************************************************************)
(* Model of the Invapi MCP server: the error classifier and the transport  *)
(* helpers of api-client.ts, the zod schemas of schemas.ts, the fourteen   *)
(* tool handlers of tools/*.ts and the entry point of index.ts.            *)
(*                                                                         *)
(* JavaScript values are tagged records; an object is the ordered sequence *)
(* of its own properties (insertion order), a string is a TLA+ string.     *)
(***************************************************************************)
EXTENDS Integers, Sequences, FiniteSets, TLC

VARIABLES
    envKey,     \* process.env.INVAPI_API_KEY (a JavaScript value)
    boot,       \* the entry point: pc, registered tool groups, exit code
    fs,         \* the local file system: path -> contents or NoFile
    inv,        \* the tool invocations in flight, one record per slot
    doc,        \* the value handed to InvoiceSchema (schema specification)
    parsed      \* the outcome of parsing doc

vars == <<envKey, boot, fs, inv, doc, parsed>>

\* ------------------------------------------------------------------------
\* Bounds of the model
\* ------------------------------------------------------------------------

\* the batch tool is called with 0..MaxCallOperations operations, and with
\* 0..MaxOperations operations where the length of the array is the subject
MaxCallOperations == 2
MaxOperations == 101
\* a batch response carries at most MaxBatchResults results
MaxBatchResults == 2

\* ------------------------------------------------------------------------
\* JavaScript values
\* ------------------------------------------------------------------------

Undef == [t |-> "undef"]
Null == [t |-> "null"]
Str(s) == [t |-> "str", s |-> s]
Num(n) == [t |-> "num", n |-> n]
Bool(b) == [t |-> "bool", b |-> b]
Arr(e) == [t |-> "arr", e |-> e]
Obj(e) == [t |-> "obj", e |-> e]
Buf(s) == [t |-> "buf", s |-> s]
P(k, v) == [k |-> k, v |-> v]

\* the property names of an object
Keys(v) == {v.e[i].k : i \in 1..Len(v.e)}

\* v?.k : the property k of v, undefined when v has none or is no object
Get(v, k) ==
    IF v.t = "obj" /\ k \in Keys(v)
    THEN (CHOOSE p \in {v.e[i] : i \in 1..Len(v.e)} : p.k = k).v
    ELSE Undef

\* v is null or undefined: v.k raises a TypeError, v ?? w is w
Nullish(v) == v.t \in {"undef", "null"}

\* the truthiness of a value in a condition
Truthy(v) ==
    CASE v.t = "undef" -> FALSE
      [] v.t = "null" -> FALSE
      [] v.t = "str" -> v.s # ""
      [] v.t = "num" -> v.n # 0
      [] v.t = "bool" -> v.b
      [] OTHER -> TRUE

\* a ?? b
Coalesce(a, b) == IF Nullish(a) THEN b ELSE a

RECURSIVE Join(_, _)
\* Array.prototype.join on an array of strings
Join(lines, sep) ==
    IF Len(lines) = 0 THEN ""
    ELSE IF Len(lines) = 1 THEN lines[1]
    ELSE lines[1] \o sep \o Join(Tail(lines), sep)

RECURSIVE ToStr(_)
\* the string a template literal or String() makes of a value
ToStr(v) ==
    CASE v.t = "str" -> v.s
      [] v.t = "num" -> ToString(v.n)
      [] v.t = "bool" -> IF v.b THEN "true" ELSE "false"
      [] v.t = "null" -> "null"
      [] v.t = "undef" -> "undefined"
      [] v.t = "obj" -> "[object Object]"
      [] v.t = "buf" -> v.s
      [] v.t = "arr" ->
           Join([i \in 1..Len(v.e) |->
                    IF Nullish(v.e[i]) THEN "" ELSE ToStr(v.e[i])], ",")

Quote(s) == "\"" \o s \o "\""

RECURSIVE Stringify(_, _, _)
\* JSON.stringify(v, null, gap) of a defined value, at indentation ind
\* (gap = "" is the compact form; the sample strings need no escaping)
Stringify(v, gap, ind) ==
    LET inner == ind \o gap
        colon == IF gap = "" THEN ":" ELSE ": "
        comma == IF gap = "" THEN "," ELSE ",\n"
        open == IF gap = "" THEN "" ELSE "\n"
        close == IF gap = "" THEN "" ELSE "\n" \o ind
    IN  CASE v.t = "str" -> Quote(v.s)
          [] v.t = "num" -> ToString(v.n)
          [] v.t = "bool" -> IF v.b THEN "true" ELSE "false"
          [] v.t = "null" -> "null"
          [] v.t = "undef" -> "null"
          [] v.t = "buf" -> Quote(v.s)
          [] v.t = "arr" ->
               IF Len(v.e) = 0 THEN "[]"
               ELSE "[" \o open
                    \o Join([i \in 1..Len(v.e) |->
                               inner \o Stringify(v.e[i], gap, inner)], comma)
                    \o close \o "]"
          [] v.t = "obj" ->
               LET kept == SelectSeq(v.e, LAMBDA p : p.v.t # "undef")
               IN  IF Len(kept) = 0 THEN "{}"
                   ELSE "{" \o open
                        \o Join([i \in 1..Len(kept) |->
                                   inner \o Quote(kept[i].k) \o colon
                                   \o Stringify(kept[i].v, gap, inner)], comma)
                        \o close \o "}"

\* JSON.stringify(v, null, 2): undefined for undefined, a string otherwise
JsonStringify(v) == IF v.t = "undef" THEN Undef ELSE Str(Stringify(v, "  ", ""))

\* s.slice(0, n)
Slice(s, n) == IF Len(s) <= n THEN s ELSE SubSeq(s, 1, n)

\* ------------------------------------------------------------------------
\* Thrown values and the two ways a call ends
\* ------------------------------------------------------------------------

Ret(v) == [r |-> "ret", v |-> v]
Throw(e) == [r |-> "throw", e |-> e]

\* new Error(message), also a TypeError or a file-system error
PlainError(message) ==
    [kind |-> "Error", message |-> message, hasResponse |-> FALSE,
     status |-> 0, data |-> Undef, code |-> ""]

\* an AxiosError that carries the response (status, decoded body)
AxiosHttpError(status, data) ==
    [kind |-> "axios",
     message |-> "Request failed with status code " \o ToString(status),
     hasResponse |-> TRUE, status |-> status, data |-> data,
     code |-> IF status >= 500 THEN "ERR_BAD_RESPONSE" ELSE "ERR_BAD_REQUEST"]

\* an AxiosError for a request no response came back for
AxiosNetError(code, message) ==
    [kind |-> "axios", message |-> message, hasResponse |-> FALSE,
     status |-> 0, data |-> Undef, code |-> code]

TypeError(message) == PlainError(message)

\* ------------------------------------------------------------------------
\* api-client.ts: handleApiError
\* ------------------------------------------------------------------------

\* the canned messages of statuses 401, 402 and 429
messages ==
    (401 :> "Authentication failed. Ensure INVAPI_API_KEY is set correctly.")
    @@ (402 :> "Insufficient credits. Top up your account at https://invapi.org.")
    @@ (429 :> "Rate limit exceeded. Wait a moment and retry.")

\* (e) => `  - ${e.path ?? "unknown"}: ${e.message ?? "invalid"}`
FieldErrorLine(e) ==
    "  - " \o ToStr(Coalesce(Get(e, "path"), Str("unknown")))
    \o ": " \o ToStr(Coalesce(Get(e, "message"), Str("invalid")))

\* the 400 branch: data.data.errors.map(...) and the join under the header
ValidationBranch(errors) ==
    IF errors.t # "arr"
    THEN Throw(TypeError("data.data.errors.map is not a function"))
    ELSE IF \E i \in 1..Len(errors.e) : Nullish(errors.e[i])
    THEN Throw(TypeError("Cannot read properties of null (reading 'path')"))
    ELSE Ret("Validation failed (400):\n"
             \o Join([i \in 1..Len(errors.e) |-> FieldErrorLine(errors.e[i])],
                     "\n"))

\* ResponseBranch with the body's message consulted before the canned table
ResponseBranchMessageFirst(status, data) ==
    LET errors == Get(Get(data, "data"), "errors")
        msg == Coalesce(Get(data, "message"), Get(data, "statusMessage"))
    IN  IF status = 400 /\ Truthy(errors)
        THEN ValidationBranch(errors)
        ELSE IF ~Nullish(msg)
        THEN Ret("API error (" \o ToString(status) \o "): " \o ToStr(msg))
        ELSE IF status \in DOMAIN messages
        THEN Ret("Error: " \o messages[status])
        ELSE Ret("API error (" \o ToString(status) \o "): Unknown error")

\* the branch of a failure that carries a response
ResponseBranch(status, data) ==
    LET errors == Get(Get(data, "data"), "errors")
        msg == Coalesce(Get(data, "message"),
                        Coalesce(Get(data, "statusMessage"),
                                 Str("Unknown error")))
    IN  IF status = 400 /\ Truthy(errors)
        THEN ValidationBranch(errors)
        ELSE IF status \in DOMAIN messages
        THEN Ret("Error: " \o messages[status])
        ELSE Ret("API error (" \o ToString(status) \o "): " \o ToStr(msg))

\* handleApiError without the branch for ENOTFOUND
handleApiErrorTimeoutOnly(error) ==
    IF error.kind = "axios" /\ error.hasResponse
    THEN ResponseBranch(error.status, error.data)
    ELSE IF error.kind = "axios" /\ error.code = "ECONNABORTED"
    THEN Ret("Error: Request timed out. The file may be too large or the server is busy.")
    ELSE Ret("Error: " \o (IF error.kind \in {"axios", "Error"}
                           THEN error.message
                           ELSE ToStr(error.data)))

\* handleApiError(error): Ret(text), or Throw when the classifier itself raises
handleApiError(error) ==
    IF error.kind = "axios" /\ error.hasResponse
    THEN ResponseBranch(error.status, error.data)
    ELSE IF error.kind = "axios" /\ error.code = "ECONNABORTED"
    THEN Ret("Error: Request timed out. The file may be too large or the server is busy.")
    ELSE IF error.kind = "axios" /\ error.code = "ENOTFOUND"
    THEN Ret("Error: Cannot reach api.invapi.org. Check your internet connection.")
    ELSE Ret("Error: " \o (IF error.kind \in {"axios", "Error"}
                           THEN error.message
                           ELSE ToStr(error.data)))

\* ------------------------------------------------------------------------
\* api-client.ts: the credential and the transport helpers
\* ------------------------------------------------------------------------

API_BASE_URL == "https://api.invapi.org"
TIMEOUT_MS == 120000
GET_TIMEOUT_MS == 30000

\* getApiKey without the check that the credential is set
getApiKeyUnchecked == Ret(ToStr(envKey))

\* getApiKey(): the credential, or the Error raised when it is not set
getApiKey ==
    IF ~Truthy(envKey)
    THEN Throw(PlainError("INVAPI_API_KEY environment variable is required. "
                          \o "Get your API key at https://invapi.org"))
    ELSE Ret(envKey.s)

\* baseHeaders(), given the credential
baseHeaders(key) == "x-api-key" :> key

\* what each helper fixes: method, headers besides the credential, the kind
\* of body it sends, the response type it asks axios for, and its timeout
HelperConfig ==
    [postJsonGetJson |->
        [method |-> "POST", responseType |-> "json", timeout |-> TIMEOUT_MS,
         headers |-> ("Content-Type" :> "application/json")
                     @@ ("Accept" :> "application/json")],
     postJsonGetText |->
        [method |-> "POST", responseType |-> "text", timeout |-> TIMEOUT_MS,
         headers |-> ("Content-Type" :> "application/json")],
     postJsonGetBinary |->
        [method |-> "POST", responseType |-> "arraybuffer", timeout |-> TIMEOUT_MS,
         headers |-> ("Content-Type" :> "application/json")],
     postXmlGetJson |->
        [method |-> "POST", responseType |-> "json", timeout |-> TIMEOUT_MS,
         headers |-> ("Content-Type" :> "application/xml")
                     @@ ("Accept" :> "application/json")],
     postBinaryGetJson |->
        [method |-> "POST", responseType |-> "json", timeout |-> TIMEOUT_MS,
         headers |-> ("Accept" :> "application/json")],
     getJson |->
        [method |-> "GET", responseType |-> "json", timeout |-> GET_TIMEOUT_MS,
         headers |-> ("Accept" :> "application/json")]]

\* the request a helper hands to axios; contentType is the third argument of
\* postBinaryGetJson and unused ("") by the other helpers
BuildRequest(helper, endpoint, data, contentType, key) ==
    LET c == HelperConfig[helper]
    IN  [helper |-> helper,
         method |-> c.method,
         url |-> API_BASE_URL \o endpoint,
         headers |-> baseHeaders(key) @@ c.headers
                     @@ (IF helper = "postBinaryGetJson"
                         THEN "Content-Type" :> contentType
                         ELSE <<>>),
         data |-> data,
         responseType |-> c.responseType,
         timeout |-> c.timeout]

\* the first half of a helper, up to the await: the headers are built first
\* (getApiKey may raise), then the request is issued
IssueRequest(helper, endpoint, data, contentType) ==
    IF getApiKey.r = "throw" THEN getApiKey
    ELSE Ret(BuildRequest(helper, endpoint, data, contentType, getApiKey.v))

\* a response body on the wire: its text, and the value it parses to as JSON
JsonBody(v) == [isJson |-> TRUE, json |-> v, text |-> Stringify(v, "", "")]
RawBody(s) == [isJson |-> FALSE, json |-> Undef, text |-> s]

\* what the remote side does with a request
HttpResponse(status, body) == [net |-> "response", status |-> status, body |-> body]
NetFailure(code) == [net |-> code, status |-> 0, body |-> RawBody("")]

\* response.data as axios decodes it: JSON is parsed only when the request
\* asked for the default (json) response type; "text" yields the raw string
\* and "arraybuffer" the raw bytes
DecodeBody(responseType, body) ==
    CASE responseType = "json" ->
           IF body.isJson /\ body.text # "" THEN body.json ELSE Str(body.text)
      [] responseType = "text" -> Str(body.text)
      [] responseType = "arraybuffer" -> Buf(body.text)

\* the second half of a helper: the awaited axios call settles. Statuses
\* outside 2xx reject with the response attached; a request that got no
\* response rejects with the code of the network failure.
SettleRequest(request, outcome) ==
    CASE outcome.net = "response" ->
           LET data == DecodeBody(request.responseType, outcome.body)
           IN  IF outcome.status >= 200 /\ outcome.status < 300
               THEN Ret(data)
               ELSE Throw(AxiosHttpError(outcome.status, data))
      [] outcome.net = "ECONNABORTED" ->
           Throw(AxiosNetError("ECONNABORTED",
                 "timeout of " \o ToString(request.timeout) \o "ms exceeded"))
      [] outcome.net = "ENOTFOUND" ->
           Throw(AxiosNetError("ENOTFOUND", "getaddrinfo ENOTFOUND api.invapi.org"))
      [] OTHER ->
           Throw(AxiosNetError(outcome.net, "connect " \o outcome.net))

\* ------------------------------------------------------------------------
\* api-client.ts: file helpers
\* ------------------------------------------------------------------------

NoFile == [exists |-> FALSE, data |-> ""]
File(data) == [exists |-> TRUE, data |-> data]

\* readFile(filePath) on the files `files`: paths outside the known
\* directory do not exist
readFileIn(files, filePath) ==
    IF filePath \in DOMAIN files /\ files[filePath].exists
    THEN Ret(files[filePath].data)
    ELSE Throw(PlainError("ENOENT: no such file or directory, open '"
                          \o filePath \o "'"))

\* readFile(filePath)
readFile(filePath) == readFileIn(fs, filePath)

readFileAsBuffer(filePath) ==
    LET r == readFile(filePath)
    IN  IF r.r = "throw" THEN r ELSE Ret(Buf(r.v))

readFileAsString(filePath) ==
    LET r == readFile(filePath)
    IN  IF r.r = "throw" THEN r ELSE Ret(Str(r.v))

\* whether writeFile(outputPath, ..) can succeed: the directory must exist
CanWrite(outputPath) == outputPath \in DOMAIN fs

\* saveBinaryFile(outputPath, data): the file system afterwards
saveBinaryFile(files, outputPath, data) ==
    IF CanWrite(outputPath)
    THEN [files EXCEPT ![outputPath] = File(data)]
    ELSE files

WriteError(outputPath) ==
    PlainError("ENOENT: no such file or directory, open '" \o outputPath \o "'")

RECURSIVE LastIndexOf(_, _, _)
\* the greatest index <= i at which character c occurs in s, or 0
LastIndexOf(s, c, i) ==
    IF i = 0 THEN 0
    ELSE IF SubSeq(s, i, i) = c THEN i
    ELSE LastIndexOf(s, c, i - 1)

\* basename(filePath), for paths that do not end in a slash
getFileName(filePath) ==
    LET j == LastIndexOf(filePath, "/", Len(filePath))
    IN  IF j = 0 THEN filePath ELSE SubSeq(filePath, j + 1, Len(filePath))

\* extname(filePath): from the last dot of the base name, unless it leads it
extname(filePath) ==
    LET b == getFileName(filePath)
        j == LastIndexOf(b, ".", Len(b))
    IN  IF j <= 1 THEN "" ELSE SubSeq(b, j, Len(b))

UpperToLower ==
    [c \in {"A", "B", "C", "D", "E", "F", "G", "H", "I", "J", "K", "L", "M",
            "N", "O", "P", "Q", "R", "S", "T", "U", "V", "W", "X", "Y", "Z"} |->
        CASE c = "A" -> "a" [] c = "B" -> "b" [] c = "C" -> "c" [] c = "D" -> "d"
          [] c = "E" -> "e" [] c = "F" -> "f" [] c = "G" -> "g" [] c = "H" -> "h"
          [] c = "I" -> "i" [] c = "J" -> "j" [] c = "K" -> "k" [] c = "L" -> "l"
          [] c = "M" -> "m" [] c = "N" -> "n" [] c = "O" -> "o" [] c = "P" -> "p"
          [] c = "Q" -> "q" [] c = "R" -> "r" [] c = "S" -> "s" [] c = "T" -> "t"
          [] c = "U" -> "u" [] c = "V" -> "v" [] c = "W" -> "w" [] c = "X" -> "x"
          [] c = "Y" -> "y" [] c = "Z" -> "z"]

RECURSIVE toLowerCase(_)
toLowerCase(s) ==
    IF Len(s) = 0 THEN ""
    ELSE LET c == SubSeq(s, 1, 1)
         IN  (IF c \in DOMAIN UpperToLower THEN UpperToLower[c] ELSE c)
             \o toLowerCase(SubSeq(s, 2, Len(s)))

\* getContentType(filePath)
getContentType(filePath) ==
    LET ext == toLowerCase(extname(filePath))
        types == (".pdf" :> "application/pdf") @@ (".png" :> "image/png")
                 @@ (".jpg" :> "image/jpeg") @@ (".jpeg" :> "image/jpeg")
                 @@ (".gif" :> "image/gif") @@ (".bmp" :> "image/bmp")
                 @@ (".tiff" :> "image/tiff") @@ (".tif" :> "image/tiff")
                 @@ (".webp" :> "image/webp") @@ (".xml" :> "application/xml")
    IN  IF ext \in DOMAIN types THEN types[ext] ELSE "application/octet-stream"

\* buffer.toString("base64"): an injective encoding of the bytes, kept
\* symbolic (the handlers never decode it)
Base64(bytes) == "base64:" \o bytes

\* ------------------------------------------------------------------------
\* zod: the schema constructors used by schemas.ts and what parsing does
\* ------------------------------------------------------------------------

NoLimit == -1

zString == [k |-> "string", min |-> NoLimit, max |-> NoLimit]
zStringMinMax(lo, hi) == [k |-> "string", min |-> lo, max |-> hi]
zNumber == [k |-> "number"]
zBoolean == [k |-> "boolean"]
zUnknown == [k |-> "unknown"]
zEnum(values) == [k |-> "enum", values |-> values]
zObject(shape) == [k |-> "object", shape |-> shape]
zArray(element, lo, hi) == [k |-> "array", element |-> element, min |-> lo, max |-> hi]
zOptional(inner) == [k |-> "optional", inner |-> inner]
zDefault(inner, value) == [k |-> "default", inner |-> inner, value |-> value]

Issue(path, code) == [path |-> path, code |-> code]
Parsed(issues, value) == [issues |-> issues, value |-> value]

\* the array index i (from 1) as a path segment (zod counts from 0)
Index(i) == ToString(i - 1)

RECURSIVE Parse(_, _, _)
\* schema.safeParse(v), at `path` inside the document: every issue found,
\* and the output value (meaningful when there is no issue). Objects keep
\* the declared keys only, in the order of the shape; a key whose parsed
\* value is undefined is left out.
Parse(schema, v, path) ==
    CASE schema.k = "optional" ->
           IF v.t = "undef" THEN Parsed({}, Undef)
           ELSE Parse(schema.inner, v, path)
      [] schema.k = "default" ->
           IF v.t = "undef" THEN Parse(schema.inner, schema.value, path)
           ELSE Parse(schema.inner, v, path)
      [] schema.k = "unknown" -> Parsed({}, v)
      [] schema.k = "string" ->
           IF v.t # "str" THEN Parsed({Issue(path, "invalid_type")}, v)
           ELSE Parsed(
                  (IF schema.min # NoLimit /\ Len(v.s) < schema.min
                   THEN {Issue(path, "too_small")} ELSE {})
                  \cup (IF schema.max # NoLimit /\ Len(v.s) > schema.max
                        THEN {Issue(path, "too_big")} ELSE {}),
                  v)
      [] schema.k = "number" ->
           IF v.t # "num" THEN Parsed({Issue(path, "invalid_type")}, v)
           ELSE Parsed({}, v)
      [] schema.k = "boolean" ->
           IF v.t # "bool" THEN Parsed({Issue(path, "invalid_type")}, v)
           ELSE Parsed({}, v)
      [] schema.k = "enum" ->
           IF v.t # "str" THEN Parsed({Issue(path, "invalid_type")}, v)
           ELSE IF v.s \notin schema.values
           THEN Parsed({Issue(path, "invalid_enum_value")}, v)
           ELSE Parsed({}, v)
      [] schema.k = "array" ->
           IF v.t # "arr" THEN Parsed({Issue(path, "invalid_type")}, v)
           ELSE LET items == [i \in 1..Len(v.e) |->
                                Parse(schema.element, v.e[i], Append(path, Index(i)))]
                IN  Parsed(
                      (IF schema.min # NoLimit /\ Len(v.e) < schema.min
                       THEN {Issue(path, "too_small")} ELSE {})
                      \cup (IF schema.max # NoLimit /\ Len(v.e) > schema.max
                            THEN {Issue(path, "too_big")} ELSE {})
                      \cup UNION {items[i].issues : i \in 1..Len(v.e)},
                      Arr([i \in 1..Len(v.e) |-> items[i].value]))
      [] schema.k = "object" ->
           IF v.t # "obj" THEN Parsed({Issue(path, "invalid_type")}, v)
           ELSE LET shape == schema.shape
                    fields == [i \in 1..Len(shape) |->
                                 P(shape[i].k,
                                   Parse(shape[i].v, Get(v, shape[i].k),
                                         Append(path, shape[i].k)))]
                    out == [i \in 1..Len(shape) |->
                              P(fields[i].k, fields[i].v.value)]
                IN  Parsed(
                      UNION {fields[i].v.issues : i \in 1..Len(shape)},
                      Obj(SelectSeq(out, LAMBDA q : q.v.t # "undef")))

\* ------------------------------------------------------------------------
\* schemas.ts
\* ------------------------------------------------------------------------

\* PostalAddressSchema without the .length(2) of country_code
PostalAddressSchemaAnyCountry ==
    zObject(<<P("address_line_1", zString),
              P("address_line_2", zOptional(zString)),
              P("address_line_3", zOptional(zString)),
              P("city", zString),
              P("post_code", zString),
              P("country_subdivision", zOptional(zString)),
              P("country_code", zString)>>)

PostalAddressSchema ==
    zObject(<<P("address_line_1", zString),
              P("address_line_2", zOptional(zString)),
              P("address_line_3", zOptional(zString)),
              P("city", zString),
              P("post_code", zString),
              P("country_subdivision", zOptional(zString)),
              P("country_code", zStringMinMax(2, 2))>>)

ContactSchema ==
    zObject(<<P("telephone_number", zOptional(zString)),
              P("email_address", zOptional(zString))>>)

PartySchema ==
    zObject(<<P("name", zString),
              P("postal_address", PostalAddressSchema),
              P("vat_identifier", zOptional(zString)),
              P("contact", ContactSchema)>>)

VatCategoryCode == zEnum({"S", "Z", "E", "AE", "K", "G", "O", "L", "M"})

PriceDetailsSchema ==
    zObject(<<P("item_price_without_vat", zNumber),
              P("item_price_discount", zOptional(zNumber)),
              P("item_price_with_vat", zNumber),
              P("item_vat_percentage", zNumber),
              P("vat_category_code", VatCategoryCode)>>)

InvoiceItemSchema ==
    zObject(<<P("item_identifier", zString),
              P("item_quantity", zNumber),
              P("item_quantity_unit_of_measure_code", zString),
              P("item_total_amount_with_vat", zNumber),
              P("item_total_amount_without_vat", zOptional(zNumber)),
              P("price_details", PriceDetailsSchema),
              P("item_information", zOptional(zString))>>)

InvoicingPeriodSchema ==
    zObject(<<P("start", zString), P("end", zString)>>)

AdditionalDataSchema ==
    zObject(<<P("reverse_charge", zOptional(zBoolean)),
              P("leitweg_id", zOptional(zString)),
              P("customer_id", zOptional(zString)),
              P("order_id", zOptional(zString)),
              P("delivery_id", zOptional(zString)),
              P("project", zOptional(zString)),
              P("preceeding_invoice_number", zOptional(zString)),
              P("invoicing_period", zOptional(InvoicingPeriodSchema))>>)

DeliveryAddressSchema ==
    zObject(<<P("address_line_1", zString),
              P("address_line_2", zOptional(zString)),
              P("address_line_3", zOptional(zString)),
              P("city", zString),
              P("post_code", zString),
              P("country_subdivision", zOptional(zString)),
              P("country_code", zStringMinMax(2, 2))>>)

DeliveryInformationSchema ==
    zObject(<<P("deliver_to", zOptional(zString)),
              P("deliver_to_address", zOptional(DeliveryAddressSchema)),
              P("delivery_date", zOptional(zString)),
              P("delivery_method", zOptional(zString)),
              P("delivery_instructions", zOptional(zString))>>)

\* PaymentInformationSchema with a default for payment_type
PaymentInformationSchemaDefaulted ==
    zObject(<<P("payment_type",
                zDefault(zOptional(zEnum({"credit_card", "credit_transfer", "cash",
                                          "online_payment_service"})),
                         Str("credit_transfer"))),
              P("payment_reference", zOptional(zString)),
              P("payment_instructions", zOptional(zString)),
              P("payment_account_number", zOptional(zString)),
              P("credit_card_number", zOptional(zString)),
              P("credit_card_type", zOptional(zString)),
              P("payment_due_date", zOptional(zString)),
              P("payment_payed_date", zOptional(zString)),
              P("payment_terms", zOptional(zString))>>)

PaymentInformationSchema ==
    zObject(<<P("payment_type",
                zOptional(zEnum({"credit_card", "credit_transfer", "cash",
                                 "online_payment_service"}))),
              P("payment_reference", zOptional(zString)),
              P("payment_instructions", zOptional(zString)),
              P("payment_account_number", zOptional(zString)),
              P("credit_card_number", zOptional(zString)),
              P("credit_card_type", zOptional(zString)),
              P("payment_due_date", zOptional(zString)),
              P("payment_payed_date", zOptional(zString)),
              P("payment_terms", zOptional(zString))>>)

TotalsSchema ==
    zObject(<<P("total_amount_without_vat", zNumber),
              P("total_amount_with_vat", zNumber),
              P("total_vat_amount", zNumber),
              P("amount_due_for_payment", zNumber),
              P("paid_amount", zNumber),
              P("sum_of_allowances", zOptional(zNumber)),
              P("sum_of_charges", zOptional(zNumber)),
              P("invoice_total_without_vat", zOptional(zNumber)),
              P("rounding_amount", zOptional(zNumber))>>)

InvoiceSchema ==
    zObject(<<P("invoice_number", zString),
              P("invoice_date", zString),
              P("invoice_currency_code", zString),
              P("invoice_type", zEnum({"incoming", "outgoing"})),
              P("invoice_note", zOptional(zString)),
              P("additional_data", zOptional(AdditionalDataSchema)),
              P("seller", PartySchema),
              P("buyer", PartySchema),
              P("delivery_information", zOptional(DeliveryInformationSchema)),
              P("payment_information", PaymentInformationSchema),
              P("totals", TotalsSchema),
              P("items", zArray(InvoiceItemSchema, 1, NoLimit)),
              P("invoice_description", zString),
              P("category", zOptional(zString)),
              P("id", zOptional(zString))>>)

ExtractionPartySchema ==
    zObject(<<P("name", zString),
              P("postal_address", PostalAddressSchema),
              P("vat_identifier", zOptional(zString)),
              P("contact", ContactSchema)>>)

CategorySchema ==
    zObject(<<P("id", zString), P("name", zString), P("description", zString)>>)

BatchOperationSchema ==
    zObject(<<P("id", zString),
              P("operation", zEnum({"json_to_ubl", "json_to_cii", "ubl_to_json",
                                    "cii_to_json", "zugferd_to_json"})),
              P("input", zUnknown)>>)

\* ------------------------------------------------------------------------
\* tools/*.ts: the registered tools
\* ------------------------------------------------------------------------

JsonToXmlTools == {"invapi_convert_json_to_ubl", "invapi_convert_json_to_cii"}
XmlToJsonTools == {"invapi_convert_ubl_to_json", "invapi_convert_cii_to_json"}
ValidationTools == {"invapi_validate_ubl", "invapi_validate_cii", "invapi_validate_xml"}
ExtractionTools == {"invapi_extract_invoice", "invapi_extract_qr"}
ConversionTools ==
    JsonToXmlTools \cup XmlToJsonTools
    \cup {"invapi_convert_json_to_xlsx", "invapi_create_zugferd_pdf",
          "invapi_convert_zugferd_to_json"}
UserTools == {"invapi_get_user"}
BatchTools == {"invapi_batch_convert"}
Tools == ConversionTools \cup ValidationTools \cup ExtractionTools
         \cup UserTools \cup BatchTools

\* the tools that take `xml` or `file_path`
XmlInputTools == XmlToJsonTools \cup ValidationTools
\* the tools whose handler starts by reading the file an argument names
FileInputTools ==
    ExtractionTools \cup {"invapi_create_zugferd_pdf", "invapi_convert_zugferd_to_json"}

\* the groups in the order index.ts registers them, and the tools of each
ToolGroups == <<"conversion", "validation", "extraction", "user", "batch">>
GroupTools ==
    [conversion |-> ConversionTools, validation |-> ValidationTools,
     extraction |-> ExtractionTools, user |-> UserTools, batch |-> BatchTools]

\* readOnlyHint that also flags the spreadsheet conversion read-only
readOnlyHintXlsx(tool) ==
    tool \in XmlToJsonTools \cup ValidationTools \cup ExtractionTools \cup UserTools
             \cup {"invapi_convert_zugferd_to_json", "invapi_convert_json_to_xlsx"}

\* annotations.readOnlyHint of each tool
readOnlyHint(tool) ==
    tool \in XmlToJsonTools \cup ValidationTools \cup ExtractionTools \cup UserTools
             \cup {"invapi_convert_zugferd_to_json"}

BatchMinOperations == 1
BatchMaxOperations == 100

\* BatchInputSchema without its .min(1)
BatchInputSchemaNoMin ==
    zObject(<<P("operations",
                zArray(BatchOperationSchema, NoLimit, BatchMaxOperations))>>)

\* inputSchema of invapi_batch_convert: operations, .min(1).max(100)
BatchInputSchema ==
    zObject(<<P("operations",
                zArray(BatchOperationSchema, BatchMinOperations,
                       BatchMaxOperations))>>)

XmlInputShape ==
    zObject(<<P("xml", zOptional(zString)), P("file_path", zOptional(zString))>>)

\* inputSchema of each tool, as the object schema the host builds from it
InputSchema(tool) ==
    CASE tool \in JsonToXmlTools ->
           zObject(<<P("invoice", InvoiceSchema),
                     P("output_path", zOptional(zString))>>)
      [] tool \in XmlInputTools -> XmlInputShape
      [] tool = "invapi_convert_json_to_xlsx" ->
           zObject(<<P("invoices", zArray(InvoiceSchema, 1, NoLimit)),
                     P("output_path", zString)>>)
      [] tool = "invapi_create_zugferd_pdf" ->
           zObject(<<P("pdf_path", zString), P("invoice", InvoiceSchema),
                     P("output_path", zString)>>)
      [] tool = "invapi_convert_zugferd_to_json" ->
           zObject(<<P("file_path", zString)>>)
      [] tool = "invapi_extract_invoice" ->
           zObject(<<P("file_path", zString),
                     P("qr", zDefault(zOptional(zBoolean), Bool(FALSE))),
                     P("parties",
                       zOptional(zArray(ExtractionPartySchema, NoLimit, NoLimit))),
                     P("instructions", zOptional(zString)),
                     P("categories",
                       zOptional(zArray(CategorySchema, NoLimit, NoLimit)))>>)
      [] tool = "invapi_extract_qr" -> zObject(<<P("file_path", zString)>>)
      [] tool = "invapi_get_user" -> zObject(<<>>)
      [] tool = "invapi_batch_convert" -> BatchInputSchema

\* the endpoint each handler posts to
Endpoint(tool) ==
    CASE tool = "invapi_convert_json_to_ubl" -> "/api/v1/json/ubl"
      [] tool = "invapi_convert_json_to_cii" -> "/api/v1/json/cii"
      [] tool = "invapi_convert_ubl_to_json" -> "/api/v1/ubl/json"
      [] tool = "invapi_convert_cii_to_json" -> "/api/v1/cii/json"
      [] tool = "invapi_convert_json_to_xlsx" -> "/api/v1/json/xlsx"
      [] tool = "invapi_create_zugferd_pdf" -> "/api/v1/json/zugferd"
      [] tool = "invapi_convert_zugferd_to_json" -> "/api/v1/zugferd/json"
      [] tool = "invapi_validate_ubl" -> "/api/v1/ubl/validate"
      [] tool = "invapi_validate_cii" -> "/api/v1/cii/validate"
      [] tool = "invapi_validate_xml" -> "/api/v1/xml/validate"
      [] tool = "invapi_extract_invoice" -> "/api/v1/file/json"
      [] tool = "invapi_extract_qr" -> "/api/v1/file/qr"
      [] tool = "invapi_get_user" -> "/api/v1/user"
      [] tool = "invapi_batch_convert" -> "/api/v1/batch/convert"

\* the transport helper each handler calls
HelperOf(tool) ==
    CASE tool \in JsonToXmlTools -> "postJsonGetText"
      [] tool \in XmlInputTools -> "postXmlGetJson"
      [] tool \in {"invapi_convert_json_to_xlsx", "invapi_create_zugferd_pdf"} ->
           "postJsonGetBinary"
      [] tool = "invapi_convert_zugferd_to_json" -> "postBinaryGetJson"
      [] tool \in ExtractionTools -> "postJsonGetJson"
      [] tool = "invapi_get_user" -> "getJson"
      [] tool = "invapi_batch_convert" -> "postJsonGetJson"

\* ------------------------------------------------------------------------
\* What a handler returns
\* ------------------------------------------------------------------------

\* { content: [{ type: "text", text }], isError }
Result(text, isError) == [kind |-> "result", text |-> text, isError |-> isError]
\* the handler's promise rejects: the failure leaves the handler
Fault(e) == [kind |-> "fault", error |-> e]
NoResult == [kind |-> "none"]

\* catch (error) { return { content: [.. handleApiError(error)], isError: true } }
Caught(error) ==
    LET h == handleApiError(error)
    IN  IF h.r = "throw" THEN Fault(h.e) ELSE Result(h.v, TRUE)

NeedInput == Result("Error: Provide either 'xml' or 'file_path'.", TRUE)

\* ------------------------------------------------------------------------
\* tools/validation.ts: formatValidationResult and resolveXmlInput
\* ------------------------------------------------------------------------

\* the lines pushed by `for (const err of result.errors)`
ValidationErrorLines(errors) ==
    CASE errors.t = "arr" ->
           IF \E i \in 1..Len(errors.e) : Nullish(errors.e[i])
           THEN Throw(TypeError("Cannot read properties of null (reading 'message')"))
           ELSE Ret([i \in 1..Len(errors.e) |->
                       "  - " \o ToStr(Get(errors.e[i], "message"))])
      [] errors.t = "str" ->
           Ret([i \in 1..Len(errors.s) |-> "  - undefined"])
      [] OTHER -> Throw(TypeError("result.errors is not iterable"))

\* result.errors?.length
HasLength(errors) ==
    CASE errors.t = "arr" -> Len(errors.e) # 0
      [] errors.t = "str" -> Len(errors.s) # 0
      [] OTHER -> Truthy(Get(errors, "length"))

\* formatValidationResult with the errors consulted before `valid`
formatValidationResultErrorsFirst(result) ==
    IF Nullish(result)
    THEN Throw(TypeError("Cannot read properties of null (reading 'valid')"))
    ELSE IF HasLength(Get(result, "errors"))
    THEN LET pushed == ValidationErrorLines(Get(result, "errors"))
         IN  IF pushed.r = "throw" THEN pushed
             ELSE Ret(Join(<<"Validation failed:">> \o pushed.v, "\n"))
    ELSE IF Truthy(Get(result, "valid"))
    THEN Ret("Validation passed: The invoice is valid.")
    ELSE Ret(Join(<<"Validation failed:", "  - Unknown validation error">>, "\n"))

formatValidationResult(result) ==
    IF Nullish(result)
    THEN Throw(TypeError("Cannot read properties of null (reading 'valid')"))
    ELSE IF Truthy(Get(result, "valid"))
    THEN Ret("Validation passed: The invoice is valid.")
    ELSE IF HasLength(Get(result, "errors"))
    THEN LET pushed == ValidationErrorLines(Get(result, "errors"))
         IN  IF pushed.r = "throw" THEN pushed
             ELSE Ret(Join(<<"Validation failed:">> \o pushed.v, "\n"))
    ELSE Ret(Join(<<"Validation failed:", "  - Unknown validation error">>, "\n"))

\* resolveXmlInput(xml, file_path), before any file is read: the inline
\* content, the need to read file_path, or null
resolveXmlInput(xml, file_path) ==
    IF Truthy(xml) THEN [read |-> FALSE, value |-> xml]
    ELSE IF Truthy(file_path) THEN [read |-> TRUE, value |-> Undef]
    ELSE [read |-> FALSE, value |-> Null]

\* tools/conversion.ts: xml ?? (file_path ? await readFileAsString(..) : null)
resolveXmlOrFile(xml, file_path) ==
    IF ~Nullish(xml) THEN [read |-> FALSE, value |-> xml]
    ELSE IF Truthy(file_path) THEN [read |-> TRUE, value |-> Undef]
    ELSE [read |-> FALSE, value |-> Null]

\* ------------------------------------------------------------------------
\* tools/batch.ts and tools/user.ts: rendering a structured response
\* ------------------------------------------------------------------------

\* the character U+2026 appended to a cut preview
Ellipsis == "..."
PreviewLength == 200

\* the preview of a successful entry's output
BatchPreview(output) ==
    IF output.t = "str"
    THEN Ret(Slice(output.s, PreviewLength)
             \o (IF Len(output.s) > PreviewLength THEN Ellipsis ELSE ""))
    ELSE LET json == JsonStringify(output)
         IN  IF json.t = "undef"
             THEN Throw(TypeError("Cannot read properties of undefined (reading 'slice')"))
             ELSE Ret(Slice(json.s, PreviewLength))

\* the summary line pushed for one entry of result.results
BatchEntryLine(r) ==
    IF Nullish(r)
    THEN Throw(TypeError("Cannot read properties of null (reading 'success')"))
    ELSE IF Truthy(Get(r, "success"))
    THEN LET preview == BatchPreview(Get(r, "output"))
         IN  IF preview.r = "throw" THEN preview
             ELSE Ret("[" \o ToStr(Get(r, "id")) \o "] OK: " \o preview.v)
    ELSE Ret("[" \o ToStr(Get(r, "id")) \o "] FAILED: "
             \o ToStr(Coalesce(Get(r, "error"), Str("Unknown error"))))

RECURSIVE BatchLines(_, _)
\* the loop over result.results: it stops at the first entry that raises
BatchLines(entries, lines) ==
    IF Len(entries) = 0 THEN Ret(lines)
    ELSE LET line == BatchEntryLine(Head(entries))
         IN  IF line.r = "throw" THEN line
             ELSE BatchLines(Tail(entries), lines \o <<line.v, "">>)

BatchHeader(summary) ==
    "Batch complete: " \o ToStr(Get(summary, "successful")) \o "/"
    \o ToStr(Get(summary, "total")) \o " succeeded ("
    \o ToStr(Get(summary, "processing_time_ms")) \o "ms)"

\* the body of the batch handler's try block after the response arrived
BatchRender(result) ==
    IF Nullish(result) \/ Nullish(Get(result, "summary"))
    THEN Throw(TypeError("Cannot read properties of undefined (reading 'successful')"))
    ELSE IF Get(result, "results").t # "arr"
    THEN Throw(TypeError("result.results is not iterable"))
    ELSE LET pushed == BatchLines(Get(result, "results").e, <<>>)
         IN  IF pushed.r = "throw" THEN pushed
             ELSE Ret(Join(<<BatchHeader(Get(result, "summary")), "">>
                           \o pushed.v, "\n"))

\* the body of the get-user handler's try block after the response arrived
UserRender(user) ==
    IF Nullish(user) \/ Nullish(Get(user, "credits"))
    THEN Throw(TypeError("Cannot read properties of undefined (reading 'extraction')"))
    ELSE LET credit(k) == ToStr(Coalesce(Get(Get(user, "credits"), k), Str("N/A")))
         IN  Ret(Join(<<"Email: " \o ToStr(Get(user, "email")),
                        "Role:  " \o ToStr(Get(user, "role")),
                        "",
                        "Credits remaining:",
                        "  Extraction: " \o credit("extraction"),
                        "  Conversion: " \o credit("conversion"),
                        "  Validation: " \o credit("validation"),
                        "  QR:         " \o credit("qr")>>, "\n"))

\* ------------------------------------------------------------------------
\* The handlers, cut at their awaits
\* ------------------------------------------------------------------------

\* how a handler gets its input before the request: inline, or by reading
\* a file first
InputPlan(tool, args) ==
    CASE tool \in XmlToJsonTools ->
           resolveXmlOrFile(Get(args, "xml"), Get(args, "file_path"))
      [] tool \in ValidationTools ->
           resolveXmlInput(Get(args, "xml"), Get(args, "file_path"))
      [] tool \in FileInputTools -> [read |-> TRUE, value |-> Undef]
      [] OTHER -> [read |-> FALSE, value |-> Undef]

\* the path a handler reads
ReadPath(tool, args) ==
    IF tool = "invapi_create_zugferd_pdf" THEN Get(args, "pdf_path").s
    ELSE Get(args, "file_path").s

\* readFileAsString for the XML tools, readFileAsBuffer for the others
ReadInput(tool, filePath) ==
    IF tool \in XmlInputTools THEN readFileAsString(filePath)
    ELSE readFileAsBuffer(filePath)

\* { content: base64, contentType, fileName }
FilePart(content, contentType, fileName) ==
    Obj(<<P("content", Str(Base64(content.s))),
          P("contentType", Str(contentType)),
          P("fileName", Str(fileName))>>)

\* the requestBody of invapi_extract_invoice
ExtractRequestBody(args, content) ==
    LET path == Get(args, "file_path").s
        opt(k, v) == IF Truthy(v) THEN <<P(k, v)>> ELSE <<>>
        nonEmpty(v) == v.t = "arr" /\ Len(v.e) # 0
    IN  Obj(<<P("file", FilePart(content, getContentType(path), getFileName(path)))>>
            \o (IF Truthy(Get(args, "qr")) THEN <<P("qr", Bool(TRUE))>> ELSE <<>>)
            \o (IF nonEmpty(Get(args, "parties"))
                THEN <<P("parties", Get(args, "parties"))>> ELSE <<>>)
            \o opt("instructions", Get(args, "instructions"))
            \o (IF nonEmpty(Get(args, "categories"))
                THEN <<P("categories", Get(args, "categories"))>> ELSE <<>>))

\* the body a handler sends, given its arguments and the input it resolved
RequestData(tool, args, content) ==
    CASE tool \in JsonToXmlTools -> Get(args, "invoice")
      [] tool \in XmlInputTools -> content
      [] tool = "invapi_convert_json_to_xlsx" ->
           Obj(<<P("invoices", Get(args, "invoices"))>>)
      [] tool = "invapi_create_zugferd_pdf" ->
           Obj(<<P("file", FilePart(content, "application/pdf",
                                    getFileName(Get(args, "pdf_path").s))),
                 P("invoice", Get(args, "invoice"))>>)
      [] tool = "invapi_convert_zugferd_to_json" -> content
      [] tool = "invapi_extract_invoice" -> ExtractRequestBody(args, content)
      [] tool = "invapi_extract_qr" ->
           Obj(<<P("file", FilePart(content,
                                    getContentType(Get(args, "file_path").s),
                                    getFileName(Get(args, "file_path").s)))>>)
      [] tool = "invapi_get_user" -> Undef
      [] tool = "invapi_batch_convert" ->
           Obj(<<P("operations", Get(args, "operations"))>>)

\* the call of the transport helper, up to its await
CallHelper(tool, args, content) ==
    IssueRequest(HelperOf(tool), Endpoint(tool), RequestData(tool, args, content),
                 IF tool = "invapi_convert_zugferd_to_json"
                 THEN "application/pdf" ELSE "")

NoWrite == [path |-> "", data |-> "", text |-> ""]
\* the handler goes on to await saveBinaryFile(path, data), then returns text
ThenWrite(path, data, text) ==
    [write |-> TRUE, res |-> Ret(""),
     pending |-> [path |-> path, data |-> data, text |-> text]]
\* the try block ends here: it returned text or raised
Ends(res) == [write |-> FALSE, res |-> res, pending |-> NoWrite]

\* SaveOrInline with `output_path !== undefined` for its condition
SaveOrInlineWhenDefined(label, output_path, xml) ==
    IF output_path.t # "undef"
    THEN ThenWrite(output_path.s, xml.s, label \o " XML saved to " \o output_path.s)
    ELSE Ends(Ret(xml.s))

\* `if (output_path) { save; confirm } return xml` of the JSON-to-XML tools
SaveOrInline(label, output_path, xml) ==
    IF Truthy(output_path)
    THEN ThenWrite(output_path.s, xml.s, label \o " XML saved to " \o output_path.s)
    ELSE Ends(Ret(xml.s))

\* the rest of the try block once the helper returned `data`
OnResponse(tool, args, data) ==
    CASE tool = "invapi_convert_json_to_ubl" ->
           SaveOrInline("UBL", Get(args, "output_path"), data)
      [] tool = "invapi_convert_json_to_cii" ->
           SaveOrInline("CII", Get(args, "output_path"), data)
      [] tool = "invapi_convert_json_to_xlsx" ->
           ThenWrite(Get(args, "output_path").s, data.s,
                     "Excel file saved to " \o Get(args, "output_path").s \o " ("
                     \o ToString(Len(Get(args, "invoices").e)) \o " invoice(s))")
      [] tool = "invapi_create_zugferd_pdf" ->
           ThenWrite(Get(args, "output_path").s, data.s,
                     "ZUGFeRD PDF saved to " \o Get(args, "output_path").s)
      [] tool \in ValidationTools -> Ends(formatValidationResult(data))
      [] tool = "invapi_get_user" -> Ends(UserRender(data))
      [] tool = "invapi_batch_convert" -> Ends(BatchRender(data))
      [] OTHER -> Ends(Ret(JsonStringify(data).s))

\* how a try block that ended turns into the handler's result
Finish(res) == IF res.r = "throw" THEN Caught(res.e) ELSE Result(res.v, FALSE)

\* ------------------------------------------------------------------------
\* Sample documents, arguments, files and remote outcomes
\* ------------------------------------------------------------------------

\* an object literal without the properties whose value is undefined
MkObj(pairs) == Obj(SelectSeq(pairs, LAMBDA q : q.v.t # "undef"))

BaseAddress ==
    Obj(<<P("address_line_1", Str("Main St 1")), P("city", Str("Berlin")),
          P("post_code", Str("10115")), P("country_code", Str("DE"))>>)

BaseParty(name) ==
    Obj(<<P("name", Str(name)), P("postal_address", BaseAddress),
          P("contact", Obj(<<>>))>>)

BaseItem ==
    Obj(<<P("item_identifier", Str("1")), P("item_quantity", Num(2)),
          P("item_quantity_unit_of_measure_code", Str("C62")),
          P("item_total_amount_with_vat", Num(238)),
          P("price_details",
            Obj(<<P("item_price_without_vat", Num(100)),
                  P("item_price_with_vat", Num(119)),
                  P("item_vat_percentage", Num(19)),
                  P("vat_category_code", Str("S"))>>))>>)

BaseTotals ==
    Obj(<<P("total_amount_without_vat", Num(200)),
          P("total_amount_with_vat", Num(238)),
          P("total_vat_amount", Num(38)),
          P("amount_due_for_payment", Num(238)),
          P("paid_amount", Num(0))>>)

BaseInvoice ==
    Obj(<<P("invoice_number", Str("INV-2025-001")),
          P("invoice_date", Str("2025-01-31")),
          P("invoice_currency_code", Str("EUR")),
          P("invoice_type", Str("outgoing")),
          P("seller", BaseParty("Seller GmbH")),
          P("buyer", BaseParty("Buyer AG")),
          P("payment_information", Obj(<<>>)),
          P("totals", BaseTotals),
          P("items", Arr(<<BaseItem>>)),
          P("invoice_description", Str("Consulting"))>>)

RECURSIVE Put(_, _, _)
\* the document v with the value at `path` replaced by w (removed when w is
\* undefined); a path segment is a property name or an array index
Put(v, path, w) ==
    IF Len(path) = 0 THEN w
    ELSE IF v.t = "arr"
    THEN Arr([i \in 1..Len(v.e) |->
                IF Index(i) = Head(path) THEN Put(v.e[i], Tail(path), w)
                ELSE v.e[i]])
    ELSE LET k == Head(path)
             child == Put(Get(v, k), Tail(path), w)
             there == v.t = "obj" /\ k \in Keys(v)
             old == IF v.t = "obj" THEN v.e ELSE <<>>
             set == IF there
                    THEN [i \in 1..Len(old) |->
                            IF old[i].k = k THEN P(k, child) ELSE old[i]]
                    ELSE Append(old, P(k, child))
         IN  MkObj(set)

\* an invoice the schema rejects
BadInvoice == Put(BaseInvoice, <<"invoice_type">>, Str("sideways"))

SampleXml == "<Invoice/>"
SamplePdf == "%PDF-1.7"
SampleXlsx == "PK-xlsx"
SampleZugferd == "%PDF-1.7 zugferd"

\* the files at start: the directory holds four names, one not yet a file
InitialFiles ==
    ("in.xml" :> File(SampleXml)) @@ ("empty.xml" :> File(""))
    @@ ("In.PDF" :> File(SamplePdf)) @@ ("out.xml" :> NoFile)

OutputPaths == {Str(""), Str("out.xml"), Str("nodir/out.xml")}
XmlFilePaths == {Str(""), Str("in.xml"), Str("empty.xml"), Str("missing.xml")}
BinaryFilePaths == {Str("In.PDF"), Str("missing.pdf")}

SampleOperation ==
    Obj(<<P("id", Str("a")), P("operation", Str("ubl_to_json")),
          P("input", Str(SampleXml))>>)
BadOperation ==
    Obj(<<P("id", Str("a")), P("operation", Str("xml_to_pdf")),
          P("input", Str(SampleXml))>>)

SampleCategory ==
    Obj(<<P("id", Str("c1")), P("name", Str("Travel")),
          P("description", Str("Travel costs"))>>)

\* the arguments of a batch call with n operations
BatchArgs(n) == Obj(<<P("operations", Arr([i \in 1..n |-> SampleOperation]))>>)

\* the arguments each tool is called with
ArgsOf(tool) ==
    CASE tool \in JsonToXmlTools ->
           {MkObj(<<P("invoice", i), P("output_path", o)>>) :
              i \in {BaseInvoice, BadInvoice}, o \in OutputPaths \cup {Undef}}
      [] tool \in XmlInputTools ->
           {MkObj(<<P("xml", x), P("file_path", f)>>) :
              x \in {Undef, Str(""), Str(SampleXml)},
              f \in XmlFilePaths \cup {Undef}}
      [] tool = "invapi_convert_json_to_xlsx" ->
           {MkObj(<<P("invoices", Arr(i)), P("output_path", o)>>) :
              i \in {<<>>, <<BaseInvoice>>, <<BaseInvoice, BaseInvoice>>},
              o \in OutputPaths \cup {Undef}}
      [] tool = "invapi_create_zugferd_pdf" ->
           {MkObj(<<P("pdf_path", f), P("invoice", BaseInvoice),
                    P("output_path", o)>>) :
              f \in BinaryFilePaths, o \in OutputPaths}
      [] tool = "invapi_convert_zugferd_to_json" ->
           {MkObj(<<P("file_path", f)>>) : f \in BinaryFilePaths \cup {Undef}}
      [] tool = "invapi_extract_invoice" ->
           {MkObj(<<P("file_path", f), P("qr", q), P("instructions", n),
                    P("categories", c)>>) :
              f \in BinaryFilePaths, q \in {Undef, Bool(TRUE)},
              n \in {Undef, Str("Always incoming")},
              c \in {Undef, Arr(<<>>), Arr(<<SampleCategory>>)}}
      [] tool = "invapi_extract_qr" ->
           {MkObj(<<P("file_path", f)>>) : f \in BinaryFilePaths \cup {Num(7)}}
      [] tool = "invapi_get_user" -> {Obj(<<>>)}
      [] tool = "invapi_batch_convert" ->
           {BatchArgs(n) : n \in 0..MaxCallOperations}
           \cup {Obj(<<P("operations", Arr(<<SampleOperation, BadOperation>>))>>)}

FieldError(path, message) ==
    MkObj(<<P("path", path), P("message", message)>>)
FieldErrorsBody(errors) == Obj(<<P("data", Obj(<<P("errors", errors)>>))>>)

SampleFieldErrors ==
    <<FieldError(Str("items"), Str("Required")),
      FieldError(Str("seller.name"), Str("Expected string"))>>

\* the bodies an error response may carry
ErrorBodies ==
    {JsonBody(FieldErrorsBody(Arr(SampleFieldErrors))),
     JsonBody(FieldErrorsBody(Arr(<<FieldError(Undef, Undef)>>))),
     JsonBody(FieldErrorsBody(Arr(<<>>))),
     JsonBody(FieldErrorsBody(Arr(<<Null>>))),
     JsonBody(FieldErrorsBody(Str("invalid invoice"))),
     JsonBody(Obj(<<P("message", Str("Bad thing")),
                    P("data", Obj(<<P("errors", Arr(SampleFieldErrors))>>))>>)),
     JsonBody(Obj(<<P("message", Str("Bad thing"))>>)),
     JsonBody(Obj(<<P("statusMessage", Str("Bad Request"))>>)),
     JsonBody(Obj(<<P("message", Str("Bad thing")),
                    P("statusMessage", Str("Bad Request"))>>)),
     JsonBody(Obj(<<>>)),
     RawBody(""),
     RawBody("<html>Bad Gateway</html>")}

ErrorStatuses == {400, 401, 402, 429, 500}

NetFailures == {NetFailure("ECONNABORTED"), NetFailure("ENOTFOUND"),
                NetFailure("ECONNREFUSED")}

ErrorOutcomes ==
    {HttpResponse(st, b) : st \in ErrorStatuses, b \in ErrorBodies}
    \cup NetFailures

RECURSIVE Repeat(_, _)
Repeat(s, n) ==
    IF n = 0 THEN ""
    ELSE LET half == Repeat(s, n \div 2)
         IN  half \o half \o (IF n % 2 = 1 THEN s ELSE "")

ValidationError(message) == Obj(<<P("message", Str(message))>>)

\* the responses of the validation endpoints
ValidationBodies ==
    {JsonBody(MkObj(<<P("valid", v), P("errors", e)>>)) :
       v \in {Bool(TRUE), Bool(FALSE)},
       e \in {Undef, Arr(<<>>), Arr(<<ValidationError("X")>>),
              Arr(<<ValidationError("X"), ValidationError("Y")>>),
              Arr(<<ValidationError("Y"), ValidationError("X")>>),
              Arr(<<ValidationError("X"), ValidationError("X")>>)}}

BatchEntry(id, success, output, error) ==
    MkObj(<<P("id", Str(id)), P("success", Bool(success)),
            P("output", output), P("error", error)>>)

\* the entries a batch response is built from: everywhere in it ...
CoreBatchEntries ==
    {BatchEntry("a", TRUE, Str(SampleXml), Undef),
     BatchEntry("b", TRUE, Obj(<<P("invoice_number", Str("INV-1"))>>), Undef),
     BatchEntry("c", TRUE, Undef, Undef),
     BatchEntry("d", FALSE, Undef, Str("Invalid XML"))}
\* ... and those tried alone
EdgeBatchEntries ==
    {BatchEntry("e", FALSE, Undef, Undef),
     BatchEntry("f", TRUE, Str(Repeat("x", PreviewLength + 1)), Undef)}

BatchResults ==
    UNION {[1..n -> CoreBatchEntries] : n \in 0..MaxBatchResults}
    \cup {<<e>> : e \in EdgeBatchEntries}

Successes(results) ==
    Cardinality({i \in 1..Len(results) : Truthy(Get(results[i], "success"))})

BatchBody(results) ==
    JsonBody(Obj(<<P("results", Arr(results)),
                   P("summary",
                     Obj(<<P("total", Num(Len(results))),
                           P("successful", Num(Successes(results))),
                           P("failed", Num(Len(results) - Successes(results))),
                           P("processing_time_ms", Num(12))>>))>>))

SampleUser ==
    Obj(<<P("email", Str("a@example.org")), P("role", Str("user")),
          P("credits", Obj(<<P("extraction", Num(5)), P("conversion", Num(0))>>))>>)

\* the successful responses of each tool's endpoint
SuccessBodies(tool) ==
    CASE tool \in JsonToXmlTools -> {RawBody(SampleXml)}
      [] tool \in ValidationTools -> ValidationBodies
      [] tool = "invapi_convert_json_to_xlsx" -> {RawBody(SampleXlsx)}
      [] tool = "invapi_create_zugferd_pdf" -> {RawBody(SampleZugferd)}
      [] tool = "invapi_get_user" ->
           {JsonBody(SampleUser), JsonBody(Obj(<<P("email", Str("a@example.org"))>>))}
      [] tool = "invapi_batch_convert" ->
           {BatchBody(r) : r \in BatchResults} \cup {JsonBody(Obj(<<>>))}
      [] OTHER -> {JsonBody(BaseInvoice), RawBody("")}

\* everything the remote side may do with a tool's request
Outcomes(tool) ==
    {HttpResponse(200, b) : b \in SuccessBodies(tool)} \cup ErrorOutcomes

\* ------------------------------------------------------------------------
\* State
\* ------------------------------------------------------------------------

\* the values INVAPI_API_KEY may have when the process starts
EnvKeys == {Undef, Str(""), Str("secret-key")}

\* the slots tool invocations run in
Slots == {"call"}

NoOutcome == [net |-> "none", status |-> 0, body |-> RawBody("")]
NotParsed == [state |-> "none", issues |-> {}, value |-> Undef]

\* a slot no invocation runs in
Idle ==
    [pc |-> "idle", tool |-> "", args |-> Undef, issues |-> {}, input |-> Undef,
     reads |-> <<>>, requests |-> <<>>, outcome |-> NoOutcome,
     pending |-> NoWrite, wrote |-> <<>>, result |-> NoResult]

Booting == [pc |-> "load", registered |-> <<>>, exitCode |-> 0, stderr |-> <<>>]

Init ==
    /\ envKey \in EnvKeys
    /\ boot = Booting
    /\ fs = InitialFiles
    /\ inv = [p \in Slots |-> Idle]
    /\ doc = Undef
    /\ parsed = NotParsed

\* ------------------------------------------------------------------------
\* index.ts: the entry point
\* ------------------------------------------------------------------------

\* registerConversionTools(server); ... registerBatchTools(server);
RegisterGroup ==
    /\ boot.pc = "load"
    /\ Len(boot.registered) < Len(ToolGroups)
    /\ boot' = [boot EXCEPT
                  !.registered = Append(@, ToolGroups[Len(boot.registered) + 1])]
    /\ UNCHANGED <<envKey, fs, inv, doc, parsed>>

\* Main without the check of the credential
MainUnchecked ==
    /\ boot.pc = "load"
    /\ Len(boot.registered) = Len(ToolGroups)
    /\ boot' = [boot EXCEPT !.pc = "connecting"]
    /\ UNCHANGED <<envKey, fs, inv, doc, parsed>>

\* main(), up to `await server.connect(transport)`
Main ==
    /\ boot.pc = "load"
    /\ Len(boot.registered) = Len(ToolGroups)
    /\ boot' = IF ~Truthy(envKey)
               THEN [boot EXCEPT
                       !.pc = "exited", !.exitCode = 1,
                       !.stderr = <<"ERROR: INVAPI_API_KEY environment variable is required.",
                                    "Get your API key at https://invapi.org">>]
               ELSE [boot EXCEPT !.pc = "connecting"]
    /\ UNCHANGED <<envKey, fs, inv, doc, parsed>>

\* server.connect resolved
Connected ==
    /\ boot.pc = "connecting"
    /\ boot' = [boot EXCEPT !.pc = "serving",
                            !.stderr = Append(@, "Invapi MCP server running (stdio)")]
    /\ UNCHANGED <<envKey, fs, inv, doc, parsed>>

\* server.connect rejected: main().catch logs and exits
ConnectFailed ==
    /\ boot.pc = "connecting"
    /\ boot' = [boot EXCEPT !.pc = "exited", !.exitCode = 1,
                            !.stderr = Append(@, "Fatal error:")]
    /\ UNCHANGED <<envKey, fs, inv, doc, parsed>>

\* ------------------------------------------------------------------------
\* A tool invocation
\* ------------------------------------------------------------------------

\* the handler returned (or its promise rejected)
Done(rec, result) == [rec EXCEPT !.pc = "done", !.result = result]

\* WithInput without the precondition of the XML tools
WithInputUnchecked(rec, content) ==
    LET c == CallHelper(rec.tool, rec.args, content)
    IN  IF c.r = "throw" THEN Done(rec, Caught(c.e))
        ELSE [rec EXCEPT !.pc = "awaiting", !.input = content,
                         !.requests = Append(@, c.v)]

\* the handler once its input is resolved: the precondition of the XML
\* tools, then the call of the transport helper up to its await
WithInput(rec, content) ==
    IF rec.tool \in XmlInputTools /\ ~Truthy(content)
    THEN Done(rec, NeedInput)
    ELSE LET c == CallHelper(rec.tool, rec.args, content)
         IN  IF c.r = "throw" THEN Done(rec, Caught(c.e))
             ELSE [rec EXCEPT !.pc = "awaiting", !.input = content,
                              !.requests = Append(@, c.v)]

\* the handler from its first line to its first await
Begin(rec) ==
    IF InputPlan(rec.tool, rec.args).read
    THEN [rec EXCEPT !.pc = "reading"]
    ELSE WithInput(rec, InputPlan(rec.tool, rec.args).value)

\* the host validates the arguments against the tool's inputSchema and,
\* when they pass, calls the handler with the parsed arguments
Invoke(p, tool, rawArgs) ==
    /\ boot.pc = "serving"
    /\ inv[p].pc = "idle"
    /\ LET r == Parse(InputSchema(tool), rawArgs, <<>>)
       IN  inv' = [inv EXCEPT ![p] =
                     IF r.issues # {}
                     THEN [Idle EXCEPT !.pc = "rejected", !.tool = tool,
                                       !.args = rawArgs, !.issues = r.issues]
                     ELSE Begin([Idle EXCEPT !.tool = tool, !.args = r.value])]
    /\ UNCHANGED <<envKey, boot, fs, doc, parsed>>

\* the handler from its awaited read, which settled as r, to its next await
ReadStep(rec, r) ==
    LET rec1 == [rec EXCEPT !.reads = Append(@, ReadPath(rec.tool, rec.args))]
    IN  IF r.r = "throw" THEN Done(rec1, Caught(r.e))
        ELSE WithInput(rec1, r.v)

\* the awaited read of the input file settles
ReadDone(p) ==
    /\ inv[p].pc = "reading"
    /\ inv' = [inv EXCEPT ![p] =
                 ReadStep(inv[p], ReadInput(inv[p].tool,
                                            ReadPath(inv[p].tool, inv[p].args)))]
    /\ UNCHANGED <<envKey, boot, fs, doc, parsed>>

\* Respond with one more attempt after a request that got no response
RespondRetrying(p, outcome) ==
    /\ inv[p].pc = "awaiting"
    /\ LET rec == [inv[p] EXCEPT !.outcome = outcome]
           s == SettleRequest(rec.requests[Len(rec.requests)], outcome)
           n == OnResponse(rec.tool, rec.args, s.v)
       IN  inv' = [inv EXCEPT ![p] =
                     IF outcome.net \notin {"response", "none"} /\ Len(rec.requests) < 2
                     THEN [rec EXCEPT !.requests = Append(@, rec.requests[1])]
                     ELSE IF s.r = "throw" THEN Done(rec, Caught(s.e))
                     ELSE IF n.write
                     THEN [rec EXCEPT !.pc = "writing", !.pending = n.pending]
                     ELSE Done(rec, Finish(n.res))]
    /\ UNCHANGED <<envKey, boot, fs, doc, parsed>>

\* the handler from its awaited HTTP call, which settled with `outcome`, to
\* its next await or its end
RespondStep(rec0, outcome) ==
    LET rec == [rec0 EXCEPT !.outcome = outcome]
        s == SettleRequest(rec.requests[Len(rec.requests)], outcome)
        n == OnResponse(rec.tool, rec.args, s.v)
    IN  IF s.r = "throw" THEN Done(rec, Caught(s.e))
        ELSE IF n.write
        THEN [rec EXCEPT !.pc = "writing", !.pending = n.pending]
        ELSE Done(rec, Finish(n.res))

\* the awaited HTTP call settles with what the remote side did
Respond(p, outcome) ==
    /\ inv[p].pc = "awaiting"
    /\ inv' = [inv EXCEPT ![p] = RespondStep(inv[p], outcome)]
    /\ UNCHANGED <<envKey, boot, fs, doc, parsed>>

\* WriteStep that confirms whether or not the write succeeded
WriteStepUnchecked(rec) ==
    Done(rec, Result(rec.pending.text, FALSE))

\* the handler from its awaited saveBinaryFile to its end
WriteStep(rec) ==
    LET w == rec.pending
    IN  IF CanWrite(w.path)
        THEN Done([rec EXCEPT !.wrote = Append(@, [path |-> w.path,
                                                   data |-> w.data])],
                  Result(w.text, FALSE))
        ELSE Done(rec, Caught(WriteError(w.path)))

\* the awaited saveBinaryFile settles
WriteDone(p) ==
    /\ inv[p].pc = "writing"
    /\ fs' = saveBinaryFile(fs, inv[p].pending.path, inv[p].pending.data)
    /\ inv' = [inv EXCEPT ![p] = WriteStep(inv[p])]
    /\ UNCHANGED <<envKey, boot, doc, parsed>>

\* the host takes the outcome; the slot is free again
Return(p) ==
    /\ inv[p].pc \in {"done", "rejected"}
    /\ inv' = [inv EXCEPT ![p] = Idle]
    /\ UNCHANGED <<envKey, boot, fs, doc, parsed>>

Next ==
    \/ RegisterGroup
    \/ Main
    \/ Connected
    \/ ConnectFailed
    \/ \E p \in Slots, tool \in Tools : \E a \in ArgsOf(tool) : Invoke(p, tool, a)
    \/ \E p \in Slots : ReadDone(p)
    \/ \E p \in Slots : \E o \in Outcomes(inv[p].tool) : Respond(p, o)
    \/ \E p \in Slots : WriteDone(p)
    \/ \E p \in Slots : Return(p)

Spec == Init /\ [][Next]_vars

\* ------------------------------------------------------------------------
\* The batch tool alone, called with every length up to MaxOperations
\* ------------------------------------------------------------------------

\* what the remote side answers a batch of any length with
BatchProbeOutcomes ==
    {HttpResponse(200, BatchBody(<<BatchEntry("a", TRUE, Str(SampleXml), Undef)>>)),
     HttpResponse(500, JsonBody(Obj(<<P("message", Str("Bad thing"))>>))),
     NetFailure("ECONNABORTED")}

NextBatch ==
    \/ RegisterGroup
    \/ Main
    \/ Connected
    \/ ConnectFailed
    \/ \E p \in Slots : \E n \in 0..MaxOperations :
          Invoke(p, "invapi_batch_convert", BatchArgs(n))
    \/ \E p \in Slots : \E o \in BatchProbeOutcomes : Respond(p, o)
    \/ \E p \in Slots : Return(p)

SpecBatch == Init /\ [][NextBatch]_vars

\* ------------------------------------------------------------------------
\* Properties of the handlers and of the error classifier
\* ------------------------------------------------------------------------

\* the request an invocation issued last
LastRequest(rec) == rec.requests[Len(rec.requests)]

GotResponse(rec) == rec.outcome.net = "response"
HttpOk(rec) ==
    GotResponse(rec) /\ rec.outcome.status >= 200 /\ rec.outcome.status < 300
HttpError(rec) == GotResponse(rec) /\ ~HttpOk(rec)
\* the remote call failed: an error status, a timeout, an unreachable host
RemoteFailed(rec) == rec.outcome.net # "none" /\ ~HttpOk(rec)
\* the read of the input file failed
ReadFailed(rec) ==
    /\ rec.reads # <<>>
    /\ ~(rec.reads[1] \in DOMAIN fs /\ fs[rec.reads[1]].exists)
\* the write of the output file failed
WriteFailed(rec) == rec.pending # NoWrite /\ ~CanWrite(rec.pending.path)
RunFailed(rec) == RemoteFailed(rec) \/ ReadFailed(rec) \/ WriteFailed(rec)

\* the failure the awaited transport call raised in the handler
RaisedByTransport(rec) == SettleRequest(LastRequest(rec), rec.outcome).e

\* sub occurs in s
Includes(s, sub) ==
    \E i \in 1..(Len(s) - Len(sub) + 1) : SubSeq(s, i, i + Len(sub) - 1) = sub

\* C1: every handler that ran to its end returned a result, never a raised
\* fault, and whenever a read, the remote call or a write failed during the
\* run that result is marked as an error.
C1_FailuresBecomeErrorResults ==
    \A p \in DOMAIN inv :
        inv[p].pc = "done" =>
            /\ inv[p].result.kind = "result"
            /\ RunFailed(inv[p]) => inv[p].result.isError

\* C2: handleApiError is total: for every failure a transport call raises
\* it returns a non-empty string and does not raise.
C2_ClassifierIsTotal ==
    \A p \in DOMAIN inv :
        (inv[p].pc = "done" /\ RemoteFailed(inv[p])) =>
            /\ handleApiError(RaisedByTransport(inv[p])).r = "ret"
            /\ handleApiError(RaisedByTransport(inv[p])).v # ""

\* the body carries a structured list of field errors: data.errors is a
\* list of objects with a path and a message
FieldErrorList(body) ==
    LET errors == Get(Get(body.json, "data"), "errors")
    IN  /\ body.isJson
        /\ errors.t = "arr"
        /\ \A i \in 1..Len(errors.e) :
              /\ Get(errors.e[i], "path").t = "str"
              /\ Get(errors.e[i], "message").t = "str"

\* the header and one `path: message` line per error, in order
FieldErrorText(body) ==
    LET errors == Get(Get(body.json, "data"), "errors").e
    IN  "Validation failed (400):\n"
        \o Join([i \in 1..Len(errors) |->
                   "  - " \o Get(errors[i], "path").s \o ": "
                   \o Get(errors[i], "message").s], "\n")

\* C3: whichever transport helper the handler used, a 400 response whose
\* body carries a list of field errors is reported as the "Validation
\* failed" header followed by one `path: message` line per error, in order.
C3_FieldErrorsRenderedForEveryHelper ==
    \A p \in DOMAIN inv :
        (/\ inv[p].pc = "done"
         /\ HttpError(inv[p])
         /\ inv[p].outcome.status = 400
         /\ FieldErrorList(inv[p].outcome.body)) =>
            inv[p].result = Result(FieldErrorText(inv[p].outcome.body), TRUE)

\* the message fixed for each of the statuses 401, 402 and 429
CannedText(status) ==
    CASE status = 401 ->
           "Error: Authentication failed. Ensure INVAPI_API_KEY is set correctly."
      [] status = 402 ->
           "Error: Insufficient credits. Top up your account at https://invapi.org."
      [] status = 429 -> "Error: Rate limit exceeded. Wait a moment and retry."

\* C4: a response with status 401, 402 or 429 is reported as the canned
\* message of that status, whatever body the response carries.
C4_CannedMessageWhateverTheBody ==
    \A p \in DOMAIN inv :
        (/\ inv[p].pc = "done"
         /\ GotResponse(inv[p])
         /\ inv[p].outcome.status \in {401, 402, 429}) =>
            inv[p].result = Result(CannedText(inv[p].outcome.status), TRUE)

\* a 402 whose body carries both a message and a list of field errors was
\* answered with the canned text
C4_Witness ==
    \E p \in DOMAIN inv :
        /\ inv[p].pc = "done"
        /\ inv[p].outcome.status = 402
        /\ Get(inv[p].outcome.body.json, "message") = Str("Bad thing")
        /\ FieldErrorList(inv[p].outcome.body)
        /\ inv[p].result.text = CannedText(402)

\* the response is a batch response in its declared shape
BatchResponse(rec) ==
    /\ rec.tool = "invapi_batch_convert"
    /\ HttpOk(rec)
    /\ Get(rec.outcome.body.json, "results").t = "arr"
    /\ Get(rec.outcome.body.json, "summary").t = "obj"

\* the line of one entry, from that entry alone
OwnLine(r) ==
    "[" \o Get(r, "id").s \o "] "
    \o (IF Get(r, "success").b
        THEN "OK: " \o (IF Get(r, "output").t = "str"
                        THEN Slice(Get(r, "output").s, PreviewLength)
                             \o (IF Len(Get(r, "output").s) > PreviewLength
                                 THEN Ellipsis ELSE "")
                        ELSE Slice(Stringify(Get(r, "output"), "  ", ""),
                                   PreviewLength))
        ELSE "FAILED: " \o (IF Get(r, "error").t = "str"
                            THEN Get(r, "error").s ELSE "Unknown error"))

\* C5: after a successful batch response the result is a summary that holds,
\* for every entry that failed or succeeded with an output, that entry's own
\* line, whatever the other entries of the response are.
C5_EntriesRenderedIndependently ==
    \A p \in DOMAIN inv :
        (inv[p].pc = "done" /\ BatchResponse(inv[p])) =>
            LET results == Get(inv[p].outcome.body.json, "results").e
            IN  \A i \in 1..Len(results) :
                    (Get(results[i], "success").b
                        => Get(results[i], "output").t # "undef") =>
                        /\ inv[p].result.kind = "result"
                        /\ ~inv[p].result.isError
                        /\ Includes(inv[p].result.text, OwnLine(results[i]))

\* the conversion of a JSON-to-XML tool succeeded remotely
Converted(rec) == rec.pc = "done" /\ rec.tool \in JsonToXmlTools /\ HttpOk(rec)
SavedText(rec) ==
    (IF rec.tool = "invapi_convert_json_to_ubl" THEN "UBL" ELSE "CII")
    \o " XML saved to " \o Get(rec.args, "output_path").s
XmlOf(rec) == rec.outcome.body.text
Saved(rec) ==
    /\ rec.result = Result(SavedText(rec), FALSE)
    /\ rec.wrote = <<[path |-> Get(rec.args, "output_path").s, data |-> XmlOf(rec)]>>
Inline(rec) == rec.result = Result(XmlOf(rec), FALSE) /\ rec.wrote = <<>>

\* C6 as stated: after a successful conversion, any string given as
\* output_path makes the tool write the XML there and confirm the path
\* without returning the XML; without output_path the XML is returned
\* inline and nothing is written.
C6_AnyOutputPathSaves ==
    \A p \in DOMAIN inv :
        Converted(inv[p]) =>
            IF Get(inv[p].args, "output_path").t = "str"
            THEN Saved(inv[p]) ELSE Inline(inv[p])

\* C6 amended: a non-empty output_path makes the tool write the XML there
\* and confirm the path without returning the XML, or return an error result
\* without the XML when the write fails; an output_path that is omitted or
\* the empty string makes it return the XML inline and write nothing.
C6_NonEmptyOutputPathSaves ==
    \A p \in DOMAIN inv :
        Converted(inv[p]) =>
            IF Truthy(Get(inv[p].args, "output_path"))
            THEN \/ CanWrite(Get(inv[p].args, "output_path").s) /\ Saved(inv[p])
                 \/ /\ ~CanWrite(Get(inv[p].args, "output_path").s)
                    /\ inv[p].result.kind = "result"
                    /\ inv[p].result.isError
                    /\ ~Includes(inv[p].result.text, XmlOf(inv[p]))
                    /\ inv[p].wrote = <<>>
            ELSE Inline(inv[p])

\* the UBL tool saved its XML to out.xml and confirmed it
C6_Witness ==
    \E p \in DOMAIN inv :
        /\ Converted(inv[p])
        /\ inv[p].tool = "invapi_convert_json_to_ubl"
        /\ Get(inv[p].args, "output_path") = Str("out.xml")
        /\ fs["out.xml"] = File(SampleXml)
        /\ inv[p].result.text = "UBL XML saved to out.xml"

\* the response of a validation endpoint in its declared shape
Validated(rec) ==
    /\ rec.pc = "done"
    /\ rec.tool \in ValidationTools
    /\ HttpOk(rec)
    /\ Get(rec.outcome.body.json, "valid").t = "bool"

RECURSIVE Bullets(_)
\* one line per error message, in order, each after a line break
Bullets(errors) ==
    IF Len(errors) = 0 THEN ""
    ELSE "\n  - " \o Get(Head(errors), "message").s \o Bullets(Tail(errors))

\* C7: a validation tool renders valid = true as the single pass line,
\* valid = false with errors as the "Validation failed" block listing every
\* message once in order, and valid = false without errors as that block
\* with a non-empty fallback line.
C7_ValidationRendering ==
    \A p \in DOMAIN inv :
        Validated(inv[p]) =>
            LET body == inv[p].outcome.body.json
                errors == Get(body, "errors")
                text == inv[p].result.text
                header == "Validation failed:"
            IN  /\ inv[p].result.kind = "result"
                /\ ~inv[p].result.isError
                /\ Get(body, "valid").b =>
                       text = "Validation passed: The invoice is valid."
                /\ (~Get(body, "valid").b /\ errors.t = "arr" /\ Len(errors.e) > 0) =>
                       text = header \o Bullets(errors.e)
                /\ (~Get(body, "valid").b /\ (errors.t = "undef" \/ errors = Arr(<<>>))) =>
                       /\ Len(text) > Len(header) + 1
                       /\ SubSeq(text, 1, Len(header) + 1) = header \o "\n"

\* a validation tool listed the two messages of an invalid document
C7_Witness ==
    \E p \in DOMAIN inv :
        /\ Validated(inv[p])
        /\ Get(inv[p].outcome.body.json, "valid") = Bool(FALSE)
        /\ Get(inv[p].outcome.body.json, "errors")
             = Arr(<<ValidationError("X"), ValidationError("Y")>>)
        /\ inv[p].result.text = "Validation failed:\n  - X\n  - Y"

\* the operations a batch invocation was called with
OperationsOf(rec) == Get(rec.args, "operations").e

\* C8: a batch call with no operation or with more than 100 is rejected by
\* the input schema and issues no request; with 1 to 100 operations the
\* length is accepted and the handler issues its one request to
\* /api/v1/batch/convert.
C8_BatchLengthGate ==
    \A p \in DOMAIN inv :
        (inv[p].tool = "invapi_batch_convert" /\ inv[p].pc # "idle") =>
            LET n == Len(OperationsOf(inv[p]))
            IN  IF n = 0 \/ n > 100
                THEN /\ inv[p].pc = "rejected"
                     /\ \E i \in inv[p].issues : i.path = <<"operations">>
                     /\ inv[p].requests = <<>>
                ELSE /\ inv[p].pc # "rejected"
                     /\ Len(inv[p].requests) = 1
                     /\ inv[p].requests[1].url
                          = "https://api.invapi.org/api/v1/batch/convert"

\* a call with 101 operations was rejected before any request
C8_Witness ==
    \E p \in DOMAIN inv :
        /\ inv[p].tool = "invapi_batch_convert"
        /\ inv[p].pc = "rejected"
        /\ Len(OperationsOf(inv[p])) = 101
        /\ inv[p].requests = <<>>

\* ------------------------------------------------------------------------
\* The Invoice schema alone, applied to sample documents
\* ------------------------------------------------------------------------

\* one change to the base invoice: the value `value` put at `at`. `kind` says
\* what the change is: it breaks the constraint of the field at `field`, it
\* supplies an optional field, or it supplies a field no schema declares.
Change(kind, at, value, field) ==
    [kind |-> kind, at |-> at, value |-> value, field |-> field]
Breaks(at, value) == Change("violation", at, value, at)
Supplies(at, value) == Change("optional", at, value, at)
Undeclared(at, value) == Change("undeclared", at, value, at)

SellerAddress == <<"seller", "postal_address">>
BuyerAddress == <<"buyer", "postal_address">>
FirstItem == <<"items", "0">>
FirstPrice == <<"items", "0", "price_details">>
DeliverTo == <<"delivery_information", "deliver_to_address">>

\* a required field is missing
MissingChanges ==
    [i \in 1..10 |->
       Breaks(<<<<"invoice_number">>, <<"invoice_date">>,
                <<"invoice_currency_code">>, <<"invoice_type">>, <<"seller">>,
                <<"buyer">>, <<"payment_information">>, <<"totals">>,
                <<"items">>, <<"invoice_description">>>>[i], Undef)]
    \o [i \in 1..7 |->
          Breaks(<<<<"seller", "name">>, <<"seller", "contact">>, SellerAddress,
                   <<"buyer", "name">>, <<"buyer", "contact">>, BuyerAddress,
                   SellerAddress \o <<"country_code">>>>[i], Undef)]
    \o [i \in 1..6 |->
          Breaks(<<SellerAddress \o <<"city">>, BuyerAddress \o <<"post_code">>,
                   <<"totals", "paid_amount">>, <<"totals", "total_vat_amount">>,
                   FirstItem \o <<"item_identifier">>,
                   FirstPrice \o <<"vat_category_code">>>>[i], Undef)]

\* a field holds a value its constraint excludes
ValueChanges ==
    <<Breaks(<<"items">>, Arr(<<>>)),
      Breaks(<<"invoice_type">>, Str("sideways")),
      Breaks(<<"invoice_type">>, Str("Outgoing")),
      Breaks(<<"invoice_type">>, Str("")),
      Breaks(SellerAddress \o <<"country_code">>, Str("D")),
      Breaks(SellerAddress \o <<"country_code">>, Str("DEU")),
      Breaks(SellerAddress \o <<"country_code">>, Str("")),
      Breaks(BuyerAddress \o <<"country_code">>, Str("Germany")),
      Change("violation", DeliverTo, Put(BaseAddress, <<"country_code">>, Str("D")),
             DeliverTo \o <<"country_code">>),
      Breaks(FirstPrice \o <<"vat_category_code">>, Str("X")),
      Breaks(FirstPrice \o <<"vat_category_code">>, Str("s")),
      Breaks(FirstPrice \o <<"vat_category_code">>, Str("")),
      Change("violation", <<"items">>,
             Arr(<<BaseItem, Put(BaseItem, <<"price_details", "vat_category_code">>,
                                 Str("VAT"))>>),
             <<"items", "1", "price_details", "vat_category_code">>),
      Breaks(<<"totals", "paid_amount">>, Str("0")),
      Breaks(<<"payment_information", "payment_type">>, Str("cheque"))>>

\* an optional field is supplied
OptionalChanges ==
    <<Supplies(<<"invoice_note">>, Str("Thank you")),
      Supplies(<<"category">>, Str("services")),
      Supplies(<<"id">>, Str("42")),
      Supplies(<<"additional_data">>, Obj(<<>>)),
      Supplies(<<"additional_data", "invoicing_period">>,
               Obj(<<P("start", Str("2025-01-01")), P("end", Str("2025-01-31"))>>)),
      Supplies(<<"additional_data", "reverse_charge">>, Bool(FALSE)),
      Supplies(DeliverTo, BaseAddress),
      Supplies(<<"payment_information", "payment_type">>, Str("cash")),
      Supplies(<<"seller", "vat_identifier">>, Str("DE123456789")),
      Supplies(<<"seller", "contact", "email_address">>, Str("a@b.example")),
      Supplies(<<"totals", "rounding_amount">>, Num(0)),
      Supplies(FirstItem \o <<"item_information">>, Str("")),
      Supplies(FirstPrice \o <<"item_price_discount">>, Num(5)),
      Supplies(<<"items">>, Arr(<<BaseItem, BaseItem>>))>>

\* a field no schema declares is supplied
UndeclaredChanges ==
    <<Undeclared(<<"due_date">>, Str("2025-02-28")),
      Undeclared(<<"seller", "tax_number">>, Str("12/345/67890")),
      Undeclared(<<"buyer", "contact", "fax">>, Str("+49 30 1")),
      Undeclared(FirstItem \o <<"sku">>, Str("A-1")),
      Undeclared(<<"payment_information", "iban">>, Str("DE02120300000000202051")),
      Undeclared(<<"custom">>, Obj(<<P("invoice_note", Str("nested"))>>))>>

Changes == MissingChanges \o ValueChanges \o OptionalChanges \o UndeclaredChanges

\* p is a prefix of q
IsPrefix(p, q) == Len(p) <= Len(q) /\ SubSeq(q, 1, Len(p)) = p
\* two changes that touch different parts of the document
Apart(a, b) == ~IsPrefix(a.at, b.at) /\ ~IsPrefix(b.at, a.at)

\* a document, with the fields of it that break a constraint and the fields
\* of it that no schema declares
Document(value, changes) ==
    [value |-> value,
     violated |-> {c.field : c \in {d \in changes : d.kind = "violation"}},
     undeclared |-> {c.field : c \in {d \in changes : d.kind = "undeclared"}}]

\* the base invoice, the base invoice with one change, and with two changes
\* that lie apart
SampleDocuments ==
    {Document(BaseInvoice, {})}
    \cup {Document(Put(BaseInvoice, Changes[i].at, Changes[i].value), {Changes[i]}) :
            i \in 1..Len(Changes)}
    \cup {Document(Put(Put(BaseInvoice, Changes[ij[1]].at, Changes[ij[1]].value),
                       Changes[ij[2]].at, Changes[ij[2]].value),
                   {Changes[ij[1]], Changes[ij[2]]}) :
            ij \in {q \in (1..Len(Changes)) \X (1..Len(Changes)) :
                      q[1] < q[2] /\ Apart(Changes[q[1]], Changes[q[2]])}}

InitSchema ==
    /\ envKey = Str("secret-key")
    /\ boot = Booting
    /\ fs = InitialFiles
    /\ inv = [p \in Slots |-> Idle]
    /\ doc \in SampleDocuments
    /\ parsed = NotParsed

\* InvoiceSchema.safeParse(invoice)
SafeParse ==
    /\ parsed.state = "none"
    /\ parsed' = [state |-> "done",
                  issues |-> Parse(InvoiceSchema, doc.value, <<>>).issues,
                  value |-> Parse(InvoiceSchema, doc.value, <<>>).value]
    /\ UNCHANGED <<envKey, boot, fs, inv, doc>>

NextSchema == SafeParse

SpecSchema == InitSchema /\ [][NextSchema]_vars

\* C9: an Invoice that violates a constraint of the schema (a required field
\* missing, no item, an invoice_type, country_code or vat_category_code
\* outside its constraint) is rejected, and the rejection carries for every
\* violated field an issue whose path is that field.
C9_ViolationsRejectedWithPaths ==
    (parsed.state = "done" /\ doc.violated # {}) =>
        /\ parsed.issues # {}
        /\ \A field \in doc.violated : \E i \in parsed.issues : i.path = field

\* an invoice with a 3-letter country code and an unknown VAT category was
\* rejected with an issue at each of the two fields
C9_Witness ==
    /\ parsed.state = "done"
    /\ doc.violated = {SellerAddress \o <<"country_code">>,
                       FirstPrice \o <<"vat_category_code">>}
    /\ Get(Get(Get(doc.value, "seller"), "postal_address"), "country_code") = Str("DEU")
    /\ {i.path : i \in parsed.issues} = doc.violated

RECURSIVE Leaves(_, _)
\* the fields of a document: every path that ends in a value, with the value
Leaves(v, path) ==
    IF v.t = "obj" /\ Len(v.e) > 0
    THEN UNION {Leaves(v.e[i].v, Append(path, v.e[i].k)) : i \in 1..Len(v.e)}
    ELSE IF v.t = "arr" /\ Len(v.e) > 0
    THEN UNION {Leaves(v.e[i], Append(path, Index(i))) : i \in 1..Len(v.e)}
    ELSE {<<path, v>>}

RECURSIVE Without(_, _)
\* the document without the fields at `paths`
Without(v, paths) ==
    IF paths = {} THEN v
    ELSE LET q == CHOOSE x \in paths : TRUE
         IN  Without(Put(v, q, Undef), paths \ {q})

\* C10 as stated: a valid Invoice is accepted, every field the caller
\* supplied is in the parsed value with the same value, and the parsed value
\* has no field the caller did not supply.
C10_EverySuppliedFieldKept ==
    (parsed.state = "done" /\ doc.violated = {}) =>
        /\ parsed.issues = {}
        /\ Leaves(parsed.value, <<>>) = Leaves(doc.value, <<>>)

\* C10 amended: a valid Invoice is accepted, every supplied field that the
\* schema declares is in the parsed value with the same value, the supplied
\* fields the schema does not declare are dropped, and the parsed value has
\* no field the caller did not supply.
C10_DeclaredFieldsKept ==
    (parsed.state = "done" /\ doc.violated = {}) =>
        /\ parsed.issues = {}
        /\ Leaves(parsed.value, <<>>)
             = Leaves(Without(doc.value, doc.undeclared), <<>>)
        /\ \A field \in doc.undeclared :
              \A l \in Leaves(parsed.value, <<>>) : ~IsPrefix(field, l[1])

\* an invoice with a note and an undeclared due_date was accepted: the note
\* is kept, the due_date is gone, no payment field was added
C10_Witness ==
    /\ parsed.state = "done"
    /\ doc.violated = {}
    /\ Get(doc.value, "due_date") = Str("2025-02-28")
    /\ Get(doc.value, "invoice_note") = Str("Thank you")
    /\ parsed.issues = {}
    /\ Get(parsed.value, "invoice_note") = Str("Thank you")
    /\ "due_date" \notin Keys(parsed.value)
    /\ Get(parsed.value, "payment_information") = Obj(<<>>)

\* ------------------------------------------------------------------------
\* The handlers alone, on a server that some entry point other than main()
\* connected: the register*Tools functions are exported and check no
\* credential, so a handler may run while INVAPI_API_KEY is not set
\* ------------------------------------------------------------------------

Serving ==
    [pc |-> "serving", registered |-> ToolGroups, exitCode |-> 0, stderr |-> <<>>]

InitHandlers ==
    /\ envKey \in EnvKeys
    /\ boot = Serving
    /\ fs = InitialFiles
    /\ inv = [p \in Slots |-> Idle]
    /\ doc = Undef
    /\ parsed = NotParsed

NextHandlers ==
    \/ \E p \in Slots, tool \in Tools : \E a \in ArgsOf(tool) : Invoke(p, tool, a)
    \/ \E p \in Slots : ReadDone(p)
    \/ \E p \in Slots : \E o \in Outcomes(inv[p].tool) : Respond(p, o)
    \/ \E p \in Slots : WriteDone(p)
    \/ \E p \in Slots : Return(p)

SpecHandlers == InitHandlers /\ [][NextHandlers]_vars

\* the handler ended before it called its transport helper: the XML
\* precondition failed, the input file could not be read, or the helper
\* found no credential
EndedBeforeRequest(rec) ==
    \/ rec.result = NeedInput
    \/ ReadFailed(rec)
    \/ ~Truthy(envKey)

\* C11 as stated, with the credential set: every invocation whose
\* arguments pass the input schema issues exactly one HTTP request.
C11_ExactlyOneRequest ==
    \A p \in DOMAIN inv :
        (inv[p].pc = "done" /\ Truthy(envKey)) => Len(inv[p].requests) = 1

\* C11 amended: an invocation whose arguments pass the input schema never
\* issues more than one HTTP request, whatever the request ends with (error
\* status, timeout, connection failure); it issues exactly one unless the
\* handler ends before the transport call (no xml and no file_path, an
\* unreadable or empty input file, no credential), and then it issues none.
C11_AtMostOneRequest ==
    \A p \in DOMAIN inv :
        /\ Len(inv[p].requests) <= 1
        /\ inv[p].pc \in {"awaiting", "writing"} => Len(inv[p].requests) = 1
        /\ inv[p].pc = "done" =>
              /\ Len(inv[p].requests) = 0 <=> EndedBeforeRequest(inv[p])
              /\ Len(inv[p].requests) = 1 <=> inv[p].outcome.net # "none"

\* a request that timed out was not repeated: the handler ended with the
\* one request it had issued
C11_Witness ==
    \E p \in DOMAIN inv :
        /\ inv[p].pc = "done"
        /\ inv[p].outcome.net = "ECONNABORTED"
        /\ Len(inv[p].requests) = 1
        /\ inv[p].result.isError

\* ------------------------------------------------------------------------
\* Properties of the start of the process
\* ------------------------------------------------------------------------

\* what main() prints when the credential is not set
Guidance ==
    <<"ERROR: INVAPI_API_KEY environment variable is required.",
      "Get your API key at https://invapi.org">>

\* the start with the credential set: nothing connects before the five
\* groups are registered, and a failed connect exits with a non-zero code
StartsWhenReady ==
    /\ boot.pc \in {"connecting", "serving"} =>
          Truthy(envKey) /\ boot.registered = ToolGroups
    /\ (boot.pc = "exited" /\ Truthy(envKey)) => boot.exitCode # 0
    /\ (\E p \in DOMAIN inv : inv[p].pc # "idle") => boot.pc = "serving"

\* C12 as stated: without the credential the process prints the guidance and
\* exits with code 1, having registered no tool and connected nothing; with
\* it the five groups are registered before the transport is connected, and
\* a failed connect exits with a non-zero code.
C12_NothingRegisteredWithoutCredential ==
    /\ ~Truthy(envKey) => boot.pc \in {"load", "exited"}
    /\ (~Truthy(envKey) /\ boot.pc = "exited") =>
          /\ boot.exitCode = 1
          /\ boot.stderr = Guidance
          /\ boot.registered = <<>>
    /\ StartsWhenReady

\* C12 amended: the five groups are registered on the server when the module
\* loads, before main() looks at the credential; without the credential the
\* process then prints the guidance and exits with code 1 without connecting
\* the transport; with it the transport is connected, after the five groups
\* were registered, and a failed connect exits with a non-zero code.
C12_StartupStateMachine ==
    /\ ~Truthy(envKey) => boot.pc \in {"load", "exited"}
    /\ (~Truthy(envKey) /\ boot.pc = "exited") =>
          /\ boot.exitCode = 1
          /\ boot.stderr = Guidance
    /\ boot.pc # "load" => boot.registered = ToolGroups
    /\ boot.pc = "load" =>
          /\ boot.exitCode = 0
          /\ boot.stderr = <<>>
          /\ boot.registered = SubSeq(ToolGroups, 1, Len(boot.registered))
    /\ StartsWhenReady

\* the process exited for want of the credential, the five groups registered
C12_Witness ==
    /\ envKey = Undef
    /\ boot.pc = "exited"
    /\ boot.exitCode = 1
    /\ boot.stderr = Guidance
    /\ Len(boot.registered) = 5

\* ------------------------------------------------------------------------
\* Two invocations in flight at once, on files both of them name
\* ------------------------------------------------------------------------

PairSlots == {"call", "other"}

\* the tools of the pair: two that write output_path, one that reads file_path
PairTools ==
    {"invapi_convert_json_to_ubl", "invapi_create_zugferd_pdf",
     "invapi_convert_ubl_to_json"}

\* their arguments: out.xml is the output of the writers and the input of
\* the reader
PairArgs(tool) ==
    CASE tool = "invapi_convert_json_to_ubl" ->
           {Obj(<<P("invoice", BaseInvoice), P("output_path", Str("out.xml"))>>)}
      [] tool = "invapi_create_zugferd_pdf" ->
           {Obj(<<P("pdf_path", Str("In.PDF")), P("invoice", BaseInvoice),
                  P("output_path", Str("out.xml"))>>)}
      [] tool = "invapi_convert_ubl_to_json" ->
           {Obj(<<P("file_path", Str(f))>>) : f \in {"in.xml", "out.xml"}}

PairOutcomes(tool) ==
    {HttpResponse(200, b) : b \in SuccessBodies(tool)}
    \cup {HttpResponse(500, JsonBody(Obj(<<P("message", Str("Bad thing"))>>))),
          NetFailure("ECONNABORTED")}

InitPair ==
    /\ envKey \in EnvKeys
    /\ boot = Booting
    /\ fs = InitialFiles
    /\ inv = [p \in PairSlots |-> Idle]
    /\ doc = Undef
    /\ parsed = NotParsed

\* an invocation that starts while no other has ended: the two overlap, and
\* both start on the initial files
InvokeInFlight(p, tool, rawArgs) ==
    /\ \A q \in PairSlots : inv[q].pc # "done"
    /\ Invoke(p, tool, rawArgs)

NextPair ==
    \/ RegisterGroup
    \/ Main
    \/ Connected
    \/ ConnectFailed
    \/ \E p \in PairSlots, tool \in PairTools :
          \E a \in PairArgs(tool) : InvokeInFlight(p, tool, a)
    \/ \E p \in PairSlots : ReadDone(p)
    \/ \E p \in PairSlots : \E o \in PairOutcomes(inv[p].tool) : Respond(p, o)
    \/ \E p \in PairSlots : WriteDone(p)

SpecPair == InitPair /\ [][NextPair]_vars

\* the read of a handler's input file, from the files `files`
ReadInputAt(files, tool, filePath) ==
    LET r == readFileIn(files, filePath)
    IN  IF r.r = "throw" THEN r
        ELSE Ret(IF tool \in XmlInputTools THEN Str(r.v) ELSE Buf(r.v))

\* the invocation rec run alone on the initial files, with the same
\* arguments and the same remote outcome: how it ends
AloneRun(rec) ==
    LET r0 == Begin([Idle EXCEPT !.tool = rec.tool, !.args = rec.args])
        r1 == IF r0.pc = "reading"
              THEN ReadStep(r0, ReadInputAt(InitialFiles, r0.tool,
                                            ReadPath(r0.tool, r0.args)))
              ELSE r0
        r2 == IF r1.pc = "awaiting" THEN RespondStep(r1, rec.outcome) ELSE r1
    IN  IF r2.pc = "writing" THEN WriteStep(r2) ELSE r2

\* no invocation is in flight any more
Settled == \A p \in DOMAIN inv : inv[p].pc \in {"idle", "done", "rejected"}

\* C13: whatever the interleaving of two invocations in flight, each ends
\* with the result it would have when run alone with the same arguments and
\* the same remote response, and once both have ended every file it wrote
\* holds what it would hold after the run alone.
C13_InvocationsIsolated ==
    \A p \in DOMAIN inv :
        inv[p].pc = "done" =>
            /\ inv[p].result = AloneRun(inv[p]).result
            /\ inv[p].wrote = AloneRun(inv[p]).wrote
            /\ Settled =>
                  \A i \in 1..Len(inv[p].wrote) :
                      fs[inv[p].wrote[i].path] = File(inv[p].wrote[i].data)

\* an invocation run with no other in flight ends as AloneRun says
AloneRunIsTheRunAlone ==
    \A p \in DOMAIN inv :
        (inv[p].pc = "done" /\ \A q \in DOMAIN inv \ {p} : inv[q].pc = "idle") =>
            /\ inv[p].result = AloneRun(inv[p]).result
            /\ inv[p].wrote = AloneRun(inv[p]).wrote

\* ------------------------------------------------------------------------
\* Properties of the requests
\* ------------------------------------------------------------------------

\* s starts with prefix
StartsWith(s, prefix) ==
    Len(s) >= Len(prefix) /\ SubSeq(s, 1, Len(prefix)) = prefix

\* C14: every request goes to the fixed base URL and carries the credential
\* of the environment in its x-api-key header; while the credential is not
\* set no request is issued, and a handler that reached its transport call
\* ends with an error result.
C14_RequestsCarryCredential ==
    \A p \in DOMAIN inv :
        /\ \A i \in 1..Len(inv[p].requests) :
              /\ StartsWith(inv[p].requests[i].url, "https://api.invapi.org/api/v1/")
              /\ "x-api-key" \in DOMAIN inv[p].requests[i].headers
              /\ envKey.t = "str"
              /\ envKey.s # ""
              /\ inv[p].requests[i].headers["x-api-key"] = envKey.s
        /\ ~Truthy(envKey) =>
              /\ inv[p].requests = <<>>
              /\ inv[p].pc \notin {"awaiting", "writing"}
              /\ inv[p].pc = "done" =>
                    /\ inv[p].result.kind = "result"
                    /\ inv[p].result.isError

\* without the credential the get-user handler ended with the error of
\* getApiKey and no request
C14_Witness ==
    \E p \in DOMAIN inv :
        /\ envKey = Undef
        /\ inv[p].pc = "done"
        /\ inv[p].tool = "invapi_get_user"
        /\ inv[p].requests = <<>>
        /\ inv[p].result
             = Result("Error: INVAPI_API_KEY environment variable is required. "
                      \o "Get your API key at https://invapi.org", TRUE)

\* an XML-input tool called with neither xml nor file_path
NeitherGiven(rec) ==
    /\ rec.tool \in XmlInputTools
    /\ rec.pc \notin {"idle", "rejected"}
    /\ Get(rec.args, "xml") = Undef
    /\ Get(rec.args, "file_path") = Undef

\* C15: an XML-input tool called with neither xml nor file_path ends at once
\* with the error result "Error: Provide either 'xml' or 'file_path'.",
\* having read no file and issued no request.
C15_NeitherXmlNorFilePath ==
    \A p \in DOMAIN inv :
        NeitherGiven(inv[p]) =>
            /\ inv[p].pc = "done"
            /\ inv[p].result
                 = Result("Error: Provide either 'xml' or 'file_path'.", TRUE)
            /\ inv[p].reads = <<>>
            /\ inv[p].requests = <<>>

\* the validate-XML tool, called with no argument, ended with that error
C15_Witness ==
    \E p \in DOMAIN inv :
        /\ NeitherGiven(inv[p])
        /\ inv[p].tool = "invapi_validate_xml"
        /\ inv[p].result.text = "Error: Provide either 'xml' or 'file_path'."
        /\ inv[p].result.isError

\* ------------------------------------------------------------------------
\* Properties of the classifier's other branches
\* ------------------------------------------------------------------------

\* the message of a response body as the classifier reads it: message,
\* else statusMessage, else the generic label
BodyMessage(data) ==
    IF ~Nullish(Get(data, "message")) THEN ToStr(Get(data, "message"))
    ELSE IF ~Nullish(Get(data, "statusMessage"))
    THEN ToStr(Get(data, "statusMessage"))
    ELSE "Unknown error"

\* C16: a failure with a response whose status is not 401, 402 or 429, and
\* that is not a 400 with a list of field errors, is reported as
\* `API error (<status>): <message>` with the response's own status and the
\* body's message, else its statusMessage, else "Unknown error".
C16_GenericApiError ==
    \A p \in DOMAIN inv :
        (/\ inv[p].pc = "done"
         /\ HttpError(inv[p])
         /\ inv[p].outcome.status \notin {401, 402, 429}
         /\ ~(/\ inv[p].outcome.status = 400
              /\ Get(Get(RaisedByTransport(inv[p]).data, "data"), "errors").t = "arr")) =>
            inv[p].result
              = Result("API error (" \o ToString(inv[p].outcome.status) \o "): "
                       \o BodyMessage(RaisedByTransport(inv[p]).data), TRUE)

\* the handler ended at its transport call for want of the credential
NoCredential(rec) ==
    /\ ~Truthy(envKey)
    /\ rec.pc = "done"
    /\ rec.result # NeedInput
    /\ ~ReadFailed(rec)

\* C17: of the failures without a response, a timeout is reported as the
\* canned timeout message, an unknown host as the canned unreachable-host
\* message, and every other one (a refused connection, a file that cannot be
\* read or written, the missing credential) as "Error: " and its own message.
C17_FailuresWithoutResponse ==
    \A p \in DOMAIN inv :
        inv[p].pc = "done" =>
            /\ inv[p].outcome.net = "ECONNABORTED" =>
                  inv[p].result
                    = Result("Error: Request timed out. The file may be too large "
                             \o "or the server is busy.", TRUE)
            /\ inv[p].outcome.net = "ENOTFOUND" =>
                  inv[p].result
                    = Result("Error: Cannot reach api.invapi.org. Check your "
                             \o "internet connection.", TRUE)
            /\ inv[p].outcome.net = "ECONNREFUSED" =>
                  inv[p].result = Result("Error: connect ECONNREFUSED", TRUE)
            /\ ReadFailed(inv[p]) =>
                  inv[p].result
                    = Result("Error: ENOENT: no such file or directory, open '"
                             \o inv[p].reads[1] \o "'", TRUE)
            /\ WriteFailed(inv[p]) =>
                  inv[p].result
                    = Result("Error: ENOENT: no such file or directory, open '"
                             \o inv[p].pending.path \o "'", TRUE)
            /\ NoCredential(inv[p]) =>
                  inv[p].result
                    = Result("Error: INVAPI_API_KEY environment variable is "
                             \o "required. Get your API key at https://invapi.org",
                             TRUE)

\* a request to an unknown host ended with the canned unreachable-host text
C17_Witness ==
    \E p \in DOMAIN inv :
        /\ inv[p].pc = "done"
        /\ inv[p].outcome.net = "ENOTFOUND"
        /\ inv[p].result.text
             = "Error: Cannot reach api.invapi.org. Check your internet connection."

\* ------------------------------------------------------------------------
\* Properties of the XML input and of the local files
\* ------------------------------------------------------------------------

\* C18: the two conversion tools and the three validation tools resolve
\* their XML input alike. For every xml and file_path each of the five
\* does what the resolution of the validation tools does: inline xml, when
\* not empty, is sent and no file is read; otherwise file_path, when not
\* empty, is read; otherwise the precondition error is returned.
C18_ResolutionsEquivalent ==
    \A p \in DOMAIN inv :
        (inv[p].tool \in XmlInputTools /\ inv[p].pc \in {"awaiting", "done"}) =>
            LET xml == Get(inv[p].args, "xml")
                file_path == Get(inv[p].args, "file_path")
                byValidation == resolveXmlInput(xml, file_path)
            IN  /\ inv[p].reads
                     = (IF byValidation.read THEN <<file_path.s>> ELSE <<>>)
                /\ (~byValidation.read /\ Truthy(byValidation.value)) =>
                      /\ Len(inv[p].requests) = 1
                      /\ inv[p].requests[1].data = xml
                /\ (~byValidation.read /\ ~Truthy(byValidation.value)) =>
                      inv[p].result = NeedInput

\* the tools that write output_path
WritingTools ==
    {"invapi_convert_json_to_ubl", "invapi_convert_json_to_cii",
     "invapi_convert_json_to_xlsx", "invapi_create_zugferd_pdf"}

\* the one write an invocation made: the response's content, at output_path
TheWrite(rec) ==
    <<[path |-> Get(rec.args, "output_path").s, data |-> rec.outcome.body.text]>>

\* where every invocation stands with respect to its write
WriteInOrder ==
    \A p \in DOMAIN inv :
        /\ inv[p].pc = "writing" =>
              /\ inv[p].tool \in WritingTools
              /\ HttpOk(inv[p])
              /\ inv[p].wrote = <<>>
              /\ inv[p].result = NoResult
        /\ inv[p].wrote # <<>> =>
              /\ inv[p].pc = "done"
              /\ inv[p].tool \in WritingTools
              /\ HttpOk(inv[p])
              /\ inv[p].wrote = TheWrite(inv[p])
        /\ (/\ inv[p].pc = "done"
            /\ inv[p].tool \in WritingTools
            /\ inv[p].result.kind = "result"
            /\ ~inv[p].result.isError
            /\ Truthy(Get(inv[p].args, "output_path"))) =>
              inv[p].wrote = TheWrite(inv[p])
        /\ (inv[p].pc = "done" /\ (ReadFailed(inv[p]) \/ RemoteFailed(inv[p]))) =>
              inv[p].wrote = <<>>
        /\ (inv[p].pc = "done" /\ WriteFailed(inv[p])) =>
              /\ inv[p].result.kind = "result"
              /\ inv[p].result.isError
              /\ inv[p].wrote = <<>>

\* a step that changes a file is the completed write of an invocation whose
\* remote call had succeeded, and that step returns the confirmation
FilesChangeOnlyByWrite ==
    fs' # fs =>
        \E p \in DOMAIN inv :
            /\ inv[p].pc = "writing"
            /\ HttpOk(inv[p])
            /\ fs' = [fs EXCEPT ![Get(inv[p].args, "output_path").s]
                                   = File(inv[p].outcome.body.text)]
            /\ inv'[p].pc = "done"
            /\ inv'[p].result.kind = "result"
            /\ ~inv'[p].result.isError

\* C19: a tool that writes output_path writes only after its remote call
\* succeeded and confirms only after the write completed; when the read of
\* the input or the remote call fails no file is created or modified, and
\* when the write fails the result is an error result.
C19_WriteAfterRemoteSuccess ==
    []WriteInOrder /\ [][FilesChangeOnlyByWrite]_vars

\* the ZUGFeRD tool wrote the returned PDF to out.xml and confirmed it
C19_Witness ==
    \E p \in DOMAIN inv :
        /\ inv[p].pc = "done"
        /\ inv[p].tool = "invapi_create_zugferd_pdf"
        /\ inv[p].wrote = <<[path |-> "out.xml", data |-> SampleZugferd]>>
        /\ fs["out.xml"] = File(SampleZugferd)
        /\ inv[p].result = Result("ZUGFeRD PDF saved to out.xml", FALSE)


\* an invocation of a read-only tool is never at a write and has written
\* nothing; put the other way, a tool that is at a write or has written is
\* registered with readOnlyHint = false
ReadOnlyNeverWrites ==
    \A p \in DOMAIN inv :
        /\ (inv[p].pc # "idle" /\ readOnlyHint(inv[p].tool)) =>
              /\ inv[p].pc # "writing"
              /\ inv[p].pending = NoWrite
              /\ inv[p].wrote = <<>>
        /\ (inv[p].pc = "writing" \/ inv[p].wrote # <<>>) =>
              ~readOnlyHint(inv[p].tool)

\* the step of a read-only tool's invocation leaves every file as it was,
\* and a step that changes a file belongs to a tool with readOnlyHint = false
ReadOnlyLeavesFiles ==
    /\ \A p \in DOMAIN inv :
          (inv'[p] # inv[p] /\ inv[p].pc # "idle" /\ readOnlyHint(inv[p].tool)) =>
              fs' = fs
    /\ fs' # fs =>
          \E p \in DOMAIN inv :
              /\ inv[p].pc = "writing"
              /\ inv'[p].pc = "done"
              /\ ~readOnlyHint(inv[p].tool)

\* C20: a tool registered with readOnlyHint = true never writes a local file
\* on any execution path, and every tool that can write a local file is
\* registered with readOnlyHint = false.
C20_ReadOnlyHintsHonest ==
    []ReadOnlyNeverWrites /\ [][ReadOnlyLeavesFiles]_vars

\* a read-only tool read its input file, was answered by the API and returned
\* its result, and every local file is as it was at the start
C20_Witness ==
    \E p \in DOMAIN inv :
        /\ inv[p].pc = "done"
        /\ readOnlyHint(inv[p].tool)
        /\ inv[p].reads # <<>>
        /\ HttpOk(inv[p])
        /\ inv[p].result.kind = "result"
        /\ ~inv[p].result.isError
        /\ inv[p].wrote = <<>>
        /\ fs = InitialFiles

====
